---- MODULE Spec2Model ----
(***************************************************************************)
(* A model of the consolidation stage of BSLMap:                           *)
(* bslmap.consolidate_extractions.merge_extractions and the gazetteer      *)
(* loader load_labs_data.  One run of merge_extractions is a state machine *)
(* whose program counter walks through the function body; the candidate    *)
(* stream, the corpus file and the gazetteer file are the inputs.          *)
(*                                                                         *)
(* Python strings are sequences of one-character strings, so that lower(), *)
(* startswith, substring containment, the regular expression pmid:(\d+)    *)
(* and str.join are computed, not assumed.  A JSON value is a tagged       *)
(* record; a JSON object (a Python dict) is a function from its keys.      *)
(***************************************************************************)
EXTENDS Integers, Sequences, FiniteSets, TLC

\* ------------------------------------------------------------ bounds
\* Longest candidate stream of a run that has no gazetteer and no corpus file.
MaxRecords == 3
\* Longest candidate stream, corpus file and gazetteer file of a run that has
\* them all; its candidates are the resolvable ones.
MaxResolved == 2
MaxCorpus == 1
MaxLabs == 2
MaxBeforeBadLine == 1
MaxJsonlRows == 3
MaxCalls == 3
MaxChunks == 2
MaxHarvested == 2
MaxTarget == 3
MaxOverlap == 3

\* ------------------------------------------------------------ JSON values
Str(s) == [t |-> "str", s |-> s]
Num(n) == [t |-> "num", n |-> n]
Bool(b) == [t |-> "bool", b |-> b]
List(xs) == [t |-> "list", xs |-> xs]
Null == [t |-> "null"]
EmptyStr == Str(<< >>)
EmptyDict == [k \in {} |-> Null]

\* dict.get(k, d)
Get(r, k, d) == IF k \in DOMAIN r THEN r[k] ELSE d

\* Python truth value of a JSON value (the operand of "if", "and", "or").
Truthy(v) ==
    CASE v.t = "str" -> v.s # << >>
      [] v.t = "num" -> v.n # 0
      [] v.t = "bool" -> v.b
      [] v.t = "list" -> v.xs # << >>
      [] v.t = "dict" -> TRUE
      [] OTHER -> FALSE

\* ------------------------------------------------------------ strings
UpperToLower ==
    ("A" :> "a") @@ ("B" :> "b") @@ ("C" :> "c") @@ ("D" :> "d") @@ ("E" :> "e") @@
    ("F" :> "f") @@ ("G" :> "g") @@ ("H" :> "h") @@ ("I" :> "i") @@ ("J" :> "j") @@
    ("K" :> "k") @@ ("L" :> "l") @@ ("M" :> "m") @@ ("N" :> "n") @@ ("O" :> "o") @@
    ("P" :> "p") @@ ("Q" :> "q") @@ ("R" :> "r") @@ ("S" :> "s") @@ ("T" :> "t") @@
    ("U" :> "u") @@ ("V" :> "v") @@ ("W" :> "w") @@ ("X" :> "x") @@ ("Y" :> "y") @@
    ("Z" :> "z")

\* str.lower()
UpperCase == DOMAIN UpperToLower
Lower(s) == [i \in 1..Len(s) |-> IF s[i] \in UpperCase THEN UpperToLower[s[i]] ELSE s[i]]

\* str.startswith(p)
StartsWith(s, p) == Len(p) <= Len(s) /\ SubSeq(s, 1, Len(p)) = p

\* "t in s" on strings: substring containment (the empty string is in every string)
Contains(s, t) ==
    \E i \in 0..(Len(s) - Len(t)) : \A k \in 1..Len(t) : s[i + k] = t[k]

Digits == {"0", "1", "2", "3", "4", "5", "6", "7", "8", "9"}

\* sep.join(xs) for a sequence xs of strings
RECURSIVE Join(_, _)
Join(sep, xs) ==
    IF xs = << >> THEN << >>
    ELSE IF Len(xs) = 1 THEN xs[1]
    ELSE xs[1] \o sep \o Join(sep, Tail(xs))

\* ------------------------------------------------------------ program literals
PMID_PREFIX == <<"p","m","i","d",":">>
NIAID_FULL == <<"n","a","t","i","o","n","a","l"," ","i","n","s","t","i","t","u","t","e"," ","o","f"," ","a","l","l","e","r","g","y"," ","a","n","d"," ","i","n","f","e","c","t","i","o","u","s"," ","d","i","s","e","a","s","e","s">>
ALIAS_NIAID == <<"n","i","a","i","d">>
ALIAS_NIA == <<"n","a","t","i","o","n","a","l"," ","i","n","s","t","i","t","u","t","e"," ","o","f"," ","a","l","l","e","r","g","y">>
ALIAS_NIH == <<"n","i","h">>
ALIAS_TERMS == <<ALIAS_NIAID, ALIAS_NIA, ALIAS_NIH>>
EVIDENCE_SEP == <<"."," ">>
LIST_SEP == <<";"," ">>
\* the earlier schema, without latitude and longitude
FIELDNAMES_EARLIER ==
    <<"pmid", "lab_name", "institution", "country", "city", "bsl_level_inferred",
      "pathogens", "research_types", "ppp_or_gof", "confidence", "source_pmid">>

FIELDNAMES ==
    <<"pmid", "lab_name", "institution", "country", "city", "latitude", "longitude",
      "bsl_level_inferred", "pathogens", "research_types", "ppp_or_gof", "confidence",
      "source_pmid">>

\* ------------------------------------------------------------ input texts
sXUniversity == <<"X"," ","U","n","i","v","e","r","s","i","t","y">>
sXUniversityLc == <<"x"," ","u","n","i","v","e","r","s","i","t","y">>
sNiaidName == <<"N","a","t","i","o","n","a","l"," ","I","n","s","t","i","t","u","t","e"," ","o","f"," ","A","l","l","e","r","g","y"," ","a","n","d"," ","I","n","f","e","c","t","i","o","u","s"," ","D","i","s","e","a","s","e","s">>
sAcmeLab == <<"A","c","m","e"," ","L","a","b">>
sOtherLab == <<"O","t","h","e","r"," ","L","a","b">>
sFooLab == <<"F","o","o"," ","L","a","b">>
sDoc1c0 == <<"p","m","i","d",":","1","#","c","h","u","n","k","0">>
sDoc1c1 == <<"p","m","i","d",":","1","#","c","h","u","n","k","1">>
sDoc1c2 == <<"p","m","i","d",":","1","#","c","h","u","n","k","2">>
sDoc12c0 == <<"p","m","i","d",":","1","2","#","c","h","u","n","k","0">>
sDoc2c0 == <<"p","m","i","d",":","2","#","c","h","u","n","k","0">>
sDoc2c1 == <<"p","m","i","d",":","2","#","c","h","u","n","k","1">>
sNotAPmid == <<"n","o","t","-","a","-","p","m","i","d">>
sEvWorkAtX == <<"w","o","r","k"," ","a","t"," ","X"," ","U","n","i","v","e","r","s","i","t","y"," ","B","S","L","-","4">>
sEvNiaid == <<"r","e","s","e","a","r","c","h","e","r","s"," ","a","t"," ","N","I","A","I","D"," ","f","o","u","n","d">>
sEvNih == <<"f","u","n","d","e","d"," ","b","y"," ","N","I","H">>
sEvBoth == <<"N","I","A","I","D"," ","a","n","d"," ","X"," ","U","n","i","v","e","r","s","i","t","y">>
sEbola == <<"E","b","o","l","a">>
sNipah == <<"N","i","p","a","h">>
sGoF == <<"G","o","F">>
sVaccine == <<"v","a","c","c","i","n","e">>
sUS == <<"U","S">>
sFR == <<"F","R">>
sMetropolis == <<"M","e","t","r","o","p","o","l","i","s">>
sBethesda == <<"B","e","t","h","e","s","d","a">>
sParis == <<"P","a","r","i","s">>
sLat1 == <<"1",".","0">>
sLon2 == <<"2",".","0">>
sLat39 == <<"3","9",".","0">>
sLon77 == <<"-","7","7",".","1">>
sBSL3 == <<"B","S","L","-","3">>
sBSL4 == <<"B","S","L","-","4">>

\* ------------------------------------------------------------ input pools
\* One JSON object per line of the candidate stream (extract_with_llm's output).
Candidates ==
    << \* 1: the first candidate of the end-to-end scenario, with its own geography
       ("doc_id" :> Str(sDoc1c0)) @@ ("institution" :> Str(sXUniversity)) @@
       ("confidence" :> Num(3)) @@ ("pathogens" :> List(<<Str(sEbola)>>)) @@
       ("country" :> Str(sFR)) @@ ("city" :> Str(sParis)) @@ ("lab_name" :> Str(sAcmeLab)) @@
       ("bsl_level_inferred" :> Str(sBSL3)),
       \* 2: the second candidate of the end-to-end scenario
       ("doc_id" :> Str(sDoc1c1)) @@ ("institution" :> EmptyStr) @@
       ("confidence" :> Num(9)) @@ ("pathogens" :> List(<<Str(sNipah)>>)) @@
       ("evidence_spans" :> List(<<Str(sEvWorkAtX)>>)) @@
       ("bsl_level_inferred" :> Str(sBSL4)),
       \* 3: a tie with 2, an institution outside the gazetteer, NIAID in the evidence
       ("doc_id" :> Str(sDoc1c2)) @@ ("institution" :> Str(sOtherLab)) @@
       ("confidence" :> Num(9)) @@ ("country" :> Str(sFR)) @@
       ("evidence_spans" :> List(<<Str(sEvNiaid)>>)) @@
       ("pathogens" :> List(<<Str(sNipah), Str(sEbola), Str(sNipah)>>)) @@
       ("research_types" :> List(<<Str(sVaccine), Str(sGoF)>>)),
       \* 4: no institution, no confidence, two evidence spans naming both entries
       ("doc_id" :> Str(sDoc12c0)) @@
       ("evidence_spans" :> List(<<Str(sEvNih), Str(sEvBoth)>>)) @@
       ("pathogens" :> Null),
       \* 5: a lower-case institution that is a gazetteer key, NIAID in the evidence
       ("doc_id" :> Str(sDoc2c0)) @@ ("institution" :> Str(sXUniversityLc)) @@
       ("confidence" :> Num(4)) @@ ("evidence_spans" :> List(<<Str(sEvNiaid)>>)) @@
       ("country" :> Str(sFR)) @@ ("city" :> Str(sParis)) @@
       ("pathogens" :> List(<< >>)) @@ ("research_types" :> Null),
       \* 6: a doc_id that is no pmid
       ("doc_id" :> Str(sNotAPmid)) @@ ("institution" :> Str(sXUniversity)) @@
       ("confidence" :> Num(9)),
       \* 7: no doc_id at all
       ("institution" :> Str(sXUniversity)) @@ ("confidence" :> Num(9)),
       \* 8: a doc_id that is not a string
       ("doc_id" :> Num(123)) @@ ("confidence" :> Num(9)),
       \* 9: a null confidence
       ("doc_id" :> Str(sDoc2c1)) @@ ("institution" :> Str(sOtherLab)) @@
       ("confidence" :> Null),
       \* 10: an institution that is not a string,
       \* and no confidence
       ("doc_id" :> Str(sDoc2c1)) @@ ("institution" :> Num(5)) >>

\* A line of the candidate stream that json.loads cannot decode.
BadLine == [undecodable |-> Bool(TRUE)]

\* The candidates that are grouped and resolved without an exception.
ResolvableCandidates == SubSeq(Candidates, 1, 5)

\* One JSON object per line of the corpus file (build_corpus's output).
CorpusEntries ==
    << ("doc_id" :> Str(sDoc1c0)) @@ ("aff_hint" :> Str(sAcmeLab)),
       ("doc_id" :> Str(sDoc12c0)) @@ ("aff_hint" :> Str(sFooLab)),
       ("doc_id" :> Str(sDoc2c0)) @@ ("aff_hint" :> EmptyStr) >>

\* One row of data/labs.csv as csv.DictReader yields it.
LabRows ==
    << [institution |-> sXUniversity, country |-> sUS, city |-> sMetropolis,
        latitude |-> sLat1, longitude |-> sLon2],
       [institution |-> sNiaidName, country |-> sUS, city |-> sBethesda,
        latitude |-> sLat39, longitude |-> sLon77],
       [institution |-> sXUniversityLc, country |-> sFR, city |-> sParis,
        latitude |-> << >>, longitude |-> << >>] >>

\* A file of JSON lines or csv rows, and a path with no file.
File(content) == [exists |-> TRUE, content |-> content]
Missing == [exists |-> FALSE, content |-> << >>]

\* Every file of at most n lines of the pool, no line twice.
SeqsUpTo(pool, n) ==
    UNION { { [k \in 1..m |-> pool[f[k]]] :
                f \in {h \in [1..m -> 1..Len(pool)] :
                         \A a, b \in 1..m : a # b => h[a] # h[b]} } : m \in 0..n }

\* ------------------------------------------------------------ ordered dicts
\* A Python dict with string keys, in insertion order: a sequence of [key, val].
Dict(d) == [t |-> "dict", d |-> d]
HasKey(od, k) == \E j \in 1..Len(od) : od[j].key = k
Lookup(od, k) == od[CHOOSE j \in 1..Len(od) : od[j].key = k].val
\* a dict that keeps the first value of a key (setdefault)
DictPutKeepFirst(od, k, v) ==
    IF HasKey(od, k) THEN od ELSE Append(od, [key |-> k, val |-> v])

\* od[k] = v: a new key is appended, an old key keeps its place and gets v
DictPut(od, k, v) ==
    IF HasKey(od, k)
    THEN [j \in 1..Len(od) |-> IF od[j].key = k THEN [key |-> k, val |-> v] ELSE od[j]]
    ELSE Append(od, [key |-> k, val |-> v])

\* ------------------------------------------------------------ load_labs_data
LabEntry(row) ==
    [institution |-> Str(row.institution),
     country |-> Str(Get(row, "country", << >>)),
     city |-> Str(Get(row, "city", << >>)),
     latitude |-> Str(Get(row, "latitude", << >>)),
     longitude |-> Str(Get(row, "longitude", << >>))]

RECURSIVE LabsOfRows(_)
LabsOfRows(rows) ==
    IF rows = << >> THEN << >>
    ELSE LET row == rows[Len(rows)]
         IN DictPut(LabsOfRows(SubSeq(rows, 1, Len(rows) - 1)),
                    Lower(row.institution), Dict(LabEntry(row)))

load_labs_data(file) == IF ~file.exists THEN << >> ELSE LabsOfRows(file.content)

\* ------------------------------------------------------------ grouping
\* re.match(r"pmid:(\d+)", s): group(1), or << >> when there is no match
ReMatchPmid(s) ==
    IF ~StartsWith(s, PMID_PREFIX) THEN << >>
    ELSE LET from == Len(PMID_PREFIX) + 1
             ends == {e \in (from - 1)..Len(s) : \A k \in from..e : s[k] \in Digits}
             last == CHOOSE e \in ends : \A f \in ends : f <= e
         IN SubSeq(s, from, last)

\* a grouper that opens a new group for every record
\* a grouping that puts the group of a new identifier in front of the others
GroupAppendNewFirst(groups, pmid, r) ==
    IF HasKey(groups, pmid)
    THEN [j \in 1..Len(groups) |->
            IF groups[j].key = pmid
            THEN [key |-> pmid, val |-> Append(groups[j].val, r)] ELSE groups[j]]
    ELSE <<[key |-> pmid, val |-> <<r>>]>> \o groups
GroupAppendAlwaysNew(groups, pmid, r) == Append(groups, [key |-> pmid, val |-> <<r>>])

\* by_pmid[pmid].append(r) on the defaultdict(list)
GroupAppend(groups, pmid, r) ==
    IF HasKey(groups, pmid)
    THEN [j \in 1..Len(groups) |->
            IF groups[j].key = pmid
            THEN [key |-> pmid, val |-> Append(groups[j].val, r)] ELSE groups[j]]
    ELSE Append(groups, [key |-> pmid, val |-> <<r>>])

\* ------------------------------------------------------------ selection
\* the sort key: x.get("confidence", 0)
ConfKey(x) == Get(x, "confidence", Num(0))

\* sorted() compares the keys with <; a key that is no number raises TypeError
\* as soon as it is compared, which happens in every list of two or more.
SortRaises(recs) == Len(recs) >= 2 /\ \E j \in 1..Len(recs) : ConfKey(recs[j]).t # "num"

\* an unstable descending sort: x is placed before the elements with an equal key
InsertDescBeforeEquals(sorted, x) ==
    LET p == Cardinality({j \in 1..Len(sorted) : ConfKey(sorted[j]).n > ConfKey(x).n})
    IN SubSeq(sorted, 1, p) \o <<x>> \o SubSeq(sorted, p + 1, Len(sorted))

\* sorted(recs, key=..., reverse=True): descending and stable, so x is placed
\* after every element whose key is greater than or equal to its own.
InsertDesc(sorted, x) ==
    LET p == Cardinality({j \in 1..Len(sorted) : ConfKey(sorted[j]).n >= ConfKey(x).n})
    IN SubSeq(sorted, 1, p) \o <<x>> \o SubSeq(sorted, p + 1, Len(sorted))

RECURSIVE SortedDesc(_)
SortedDesc(recs) ==
    IF Len(recs) <= 1 THEN recs
    ELSE InsertDesc(SortedDesc(SubSeq(recs, 1, Len(recs) - 1)), recs[Len(recs)])

\* best = sorted(recs, key=lambda x: x.get("confidence", 0), reverse=True)[0]
\* a selection that takes the first candidate to arrive
BestFirstArrival(recs) == recs[1]
Best(recs) == SortedDesc(recs)[1]

\* ------------------------------------------------------------ resolution
\* next((r for r in corpus if r.get("doc_id", "").startswith(f"pmid:{pmid}")), {})
CorpusRec(corp, pmid) ==
    LET hits == {j \in 1..Len(corp) :
                    StartsWith(Get(corp[j], "doc_id", EmptyStr).s, PMID_PREFIX \o pmid)}
    IN IF hits = {} THEN EmptyDict ELSE corp[CHOOSE j \in hits : \A h \in hits : j <= h]

\* "institution" in best and best["institution"]
HasInstitution(b) == "institution" \in DOMAIN b /\ Truthy(b["institution"])

\* best["institution"].lower() on a value that is no string raises AttributeError
DirectRaises(b) == HasInstitution(b) /\ b["institution"].t # "str"

\* Strategy A: the lower-cased institution of best as a key of labs_data
DirectMatch(b, labs) ==
    IF HasInstitution(b) /\ HasKey(labs, Lower(b["institution"].s))
    THEN Lookup(labs, Lower(b["institution"].s))
    ELSE Null

\* ". ".join(x) raises TypeError when x is no list of strings
JoinRaises(v) == v.t # "list" \/ \E j \in 1..Len(v.xs) : v.xs[j].t # "str"
Texts(v) == [j \in 1..Len(v.xs) |-> v.xs[j].s]

EvidenceSpans(b) == Get(b, "evidence_spans", List(<<EmptyStr>>))
\* an evidence text that keeps its capitals
EvidenceNotLowered(b) == Join(EVIDENCE_SEP, Texts(EvidenceSpans(b)))
\* evidence = ". ".join(best.get("evidence_spans", [""])).lower()
Evidence(b) == Lower(Join(EVIDENCE_SEP, Texts(EvidenceSpans(b))))

\* the two conditions of the scan for one entry of labs_data
NameInEvidence(inst_name, evidence) == Contains(evidence, Lower(inst_name))
\* an alias test without the guard on the institute's full name
AliasInEvidenceAnyEntry(inst_name, evidence) ==
    \E a \in 1..Len(ALIAS_TERMS) : Contains(evidence, ALIAS_TERMS[a])
AliasInEvidence(inst_name, evidence) ==
    /\ Contains(Lower(inst_name), NIAID_FULL)
    /\ \E a \in 1..Len(ALIAS_TERMS) : Contains(evidence, ALIAS_TERMS[a])
EntryMatches(inst_name, evidence) ==
    NameInEvidence(inst_name, evidence) \/ AliasInEvidence(inst_name, evidence)

\* a loop that has no break: the last entry that matches is kept
ScanIndexLast(evidence, labs) ==
    LET hits == {j \in 1..Len(labs) : EntryMatches(labs[j].key, evidence)}
    IN IF hits = {} THEN 0 ELSE CHOOSE j \in hits : \A h \in hits : h <= j

\* the index the loop over labs_data.items() breaks at, 0 when it runs to the end
ScanIndex(evidence, labs) ==
    LET hits == {j \in 1..Len(labs) : EntryMatches(labs[j].key, evidence)}
    IN IF hits = {} THEN 0 ELSE CHOOSE j \in hits : \A h \in hits : j <= h

\* the scan runs when "evidence and labs_data"
ScanRuns(b, labs) == Evidence(b) # << >> /\ labs # << >>

\* a scan that keeps the loop variable of the last turn when nothing matched
ScanMatchLeaksLoopVariable(b, labs) ==
    IF ~ScanRuns(b, labs) THEN Null
    ELSE IF ScanIndex(Evidence(b), labs) # 0 THEN labs[ScanIndex(Evidence(b), labs)].val
    ELSE labs[Len(labs)].val
\* Strategy B: the entry the scan stops at
ScanMatch(b, labs) ==
    IF ScanRuns(b, labs) /\ ScanIndex(Evidence(b), labs) # 0
    THEN labs[ScanIndex(Evidence(b), labs)].val
    ELSE Null

\* a resolver that scans the evidence first and looks the institution up second
InstitutionMatchScanFirst(b, labs) ==
    IF DirectRaises(b) \/ Truthy(ScanMatch(b, labs)) THEN ScanMatch(b, labs)
    ELSE DirectMatch(b, labs)

\* institution_match after both strategies ("if not institution_match" guards B)
InstitutionMatch(b, labs) ==
    IF Truthy(DirectMatch(b, labs)) THEN DirectMatch(b, labs) ELSE ScanMatch(b, labs)

\* Python's "a or b"
Or(a, b) == IF Truthy(a) THEN a ELSE b

\* a priority chain with the candidate's institution ahead of aff_hint
InstitutionCandidateFirst(corpus_rec, b, match) ==
    Or(Get(b, "institution", EmptyStr),
       Or(Get(corpus_rec, "aff_hint", EmptyStr),
          IF Truthy(match) THEN match.d["institution"] ELSE EmptyStr))

\* corpus_rec.get("aff_hint", "") or best.get("institution", "") or (match name or "")
Institution(corpus_rec, b, match) ==
    Or(Get(corpus_rec, "aff_hint", EmptyStr),
       Or(Get(b, "institution", EmptyStr),
          IF Truthy(match) THEN match.d["institution"] ELSE EmptyStr))

\* a row whose latitude and longitude are taken from each other's column
GeoSwapped(match, field) ==
    IF ~Truthy(match) THEN EmptyStr
    ELSE Get(match.d, CASE field = "latitude" -> "longitude"
                        [] field = "longitude" -> "latitude"
                        [] OTHER -> field, EmptyStr)

\* institution_match.get(field, "") if institution_match else ""
Geo(match, field) == IF Truthy(match) THEN Get(match.d, field, EmptyStr) ELSE EmptyStr

\* "; ".join(best.get(field, []) or [])
ListOrEmpty(b, field) == Or(Get(b, field, List(<< >>)), List(<< >>))
\* a join that drops the repeated elements
JoinedDistinct(b, field) ==
    LET xs == Texts(ListOrEmpty(b, field))
        First(k) == \A m \in 1..(k - 1) : xs[m] # xs[k]
        kept == SelectSeq([k \in 1..Len(xs) |-> k], First)
    IN Str(Join(LIST_SEP, [j \in 1..Len(kept) |-> xs[kept[j]]]))
Joined(b, field) == Str(Join(LIST_SEP, Texts(ListOrEmpty(b, field))))

Row(pmid, b, institution, match) ==
    [pmid |-> Str(pmid),
     lab_name |-> Get(b, "lab_name", EmptyStr),
     institution |-> institution,
     country |-> Geo(match, "country"),
     city |-> Geo(match, "city"),
     latitude |-> Geo(match, "latitude"),
     longitude |-> Geo(match, "longitude"),
     bsl_level_inferred |-> Get(b, "bsl_level_inferred", EmptyStr),
     pathogens |-> Joined(b, "pathogens"),
     research_types |-> Joined(b, "research_types"),
     ppp_or_gof |-> Get(b, "ppp_or_gof", Bool(FALSE)),
     confidence |-> Get(b, "confidence", Num(0)),
     source_pmid |-> Str(pmid)]

\* The exception the body of the loop over by_pmid raises for one group, or "none".
GroupError(recs, labs) ==
    IF SortRaises(recs) THEN "TypeError"
    ELSE IF DirectRaises(Best(recs)) THEN "AttributeError"
    ELSE IF ~Truthy(DirectMatch(Best(recs), labs)) /\ JoinRaises(EvidenceSpans(Best(recs)))
         THEN "TypeError"
    ELSE IF JoinRaises(ListOrEmpty(Best(recs), "pathogens"))
            \/ JoinRaises(ListOrEmpty(Best(recs), "research_types")) THEN "TypeError"
    ELSE "none"

\* ------------------------------------------------------------ csv output
\* csv.DictWriter writes None as the empty field and str(v) for anything else
CsvCell(v) == IF v.t = "null" THEN EmptyStr ELSE v
CsvLine(row) == [k \in 1..Len(FIELDNAMES) |-> CsvCell(row[FIELDNAMES[k]])]
NewFile == [exists |-> TRUE, header |-> << >>, lines |-> << >>]
NoFile == [exists |-> FALSE, header |-> << >>, lines |-> << >>]
\* a table that an earlier run left at the output path
OldTable ==
    [exists |-> TRUE, header |-> FIELDNAMES,
     lines |-> <<CsvLine(Row(<<"9">>, Candidates[1], Str(sAcmeLab), Null))>>]

\* ------------------------------------------------------------ jsonl output
\* json.dumps(r, ensure_ascii=False) of a flat object with string values
sQuote == <<"\"">>
DumpsPair(kv) == sQuote \o kv.key \o sQuote \o <<":", " ">> \o sQuote \o kv.val.s \o sQuote
Dumps(r) == <<"{">> \o Join(<<",", " ">>, [j \in 1..Len(r) |-> DumpsPair(r[j])]) \o <<"}">>
\* json.dumps raises TypeError on a value that is no JSON type
DumpsRaises(r) == \E j \in 1..Len(r) : r[j].val.t # "str"
JsonlLine(r) == Dumps(r) \o <<"\n">>
sDocId == <<"d","o","c","_","i","d">>
sText == <<"t","e","x","t">>
sA == <<"a">>
sB == <<"b">>
\* The rows handed to atomic_write_jsonl; the last holds a value json cannot encode.
JsonlRows ==
    << <<[key |-> sDocId, val |-> Str(sA)]>>,
       <<[key |-> sDocId, val |-> Str(sB)], [key |-> sText, val |-> Str(sEbola)]>>,
       <<[key |-> sDocId, val |-> [t |-> "bytes"]]>> >>
NoJsonl == [exists |-> FALSE, lines |-> << >>]
EmptyJsonl == [exists |-> TRUE, lines |-> << >>]
\* a file an earlier call left at the target path
OldJsonl == [exists |-> TRUE, lines |-> <<JsonlLine(JsonlRows[2])>>]
\* sequences of at most n elements of pool, repeats allowed
RECURSIVE SeqsWithRepeats(_, _)
SeqsWithRepeats(pool, len) ==
    IF len = 0 THEN {<< >>}
    ELSE SeqsWithRepeats(pool, len - 1) \cup
         {Append(q, pool[j]) : q \in SeqsWithRepeats(pool, len - 1), j \in 1..Len(pool)}

\* ------------------------------------------------------------ serving layer
sFeatureCollection == <<"F","e","a","t","u","r","e","C","o","l","l","e","c","t","i","o","n">>
sFeature == <<"F","e","a","t","u","r","e">>
sLabA == <<"l","a","b","-","a">>
sLabB == <<"l","a","b","-","b">>
sLabZ == <<"l","a","b","-","z">>
\* a GeoJSON feature with an id and a name, and one without id as build_geojson writes them
Feature(id, name) ==
    Dict(("type" :> Str(sFeature)) @@ ("id" :> id) @@
         ("properties" :> Dict(("institution" :> Str(name)))))
FeatureNoId(name) ==
    Dict(("type" :> Str(sFeature)) @@ ("properties" :> Dict(("institution" :> Str(name)))))
FeatureCollection(features) ==
    Dict(("type" :> Str(sFeatureCollection)) @@ ("features" :> List(features)))
\* the value get_labs_data falls back to
EmptyFeatureCollection == FeatureCollection(<< >>)
\* The data file: absent, not JSON, or any JSON text.
GeoMissing == [kind |-> "missing", value |-> Null]
GeoInvalid == [kind |-> "invalid", value |-> Null]
GeoJson(v) == [kind |-> "json", value |-> v]
GeoFiles ==
    {GeoMissing, GeoInvalid, GeoJson(Null),
     GeoJson(FeatureCollection(<<Feature(Str(sLabA), sXUniversity), Feature(Str(sLabB), sOtherLab),
                                 Feature(Str(sLabA), sAcmeLab)>>)),
     GeoJson(FeatureCollection(<<FeatureNoId(sFooLab)>>))}
\* the lab_id of a request
LabIds == {sLabA, sLabB, sLabZ}
\* with open(GEOJSON_PATH, 'r') as f: json.load(f)
GeoLoadRaises(file) == file.kind # "json"
GeoLoad(file) == file.value
NoResponse == [status |-> 0, body |-> Null, exc |-> "none"]
\* The try block of get_lab: the feature it returns, or the exception it raises.
RECURSIVE FirstWithId(_, _)
FirstWithId(features, lab_id) ==
    IF features = << >> THEN Null
    ELSE IF Get(features[1].d, "id", Null) = Str(lab_id) THEN features[1]
    ELSE FirstWithId(Tail(features), lab_id)
GetLabTry(file, lab_id) ==
    IF file.kind = "missing" THEN [raised |-> "FileNotFoundError", value |-> Null]
    ELSE IF file.kind = "invalid" THEN [raised |-> "JSONDecodeError", value |-> Null]
    ELSE IF GeoLoad(file).t # "dict" THEN [raised |-> "AttributeError", value |-> Null]
    ELSE LET found == FirstWithId(Get(GeoLoad(file).d, "features", List(<< >>)).xs, lab_id)
         IN IF found # Null THEN [raised |-> "none", value |-> found]
            ELSE [raised |-> "HTTPException(404)", value |-> Null]
\* "except Exception as e: raise HTTPException(status_code=500, ...)" encloses
\* the whole try block; HTTPException is an Exception
GetLabResponse(file, lab_id) ==
    LET t == GetLabTry(file, lab_id)
    IN IF t.raised = "none" THEN [status |-> 200, body |-> t.value, exc |-> "none"]
       ELSE [status |-> 500, body |-> Null, exc |-> t.raised]

\* ------------------------------------------------------------ extraction
\* format_prompt: the text before and after the chunk's text
PROMPT_HEAD ==
    <<"E","x","t","r","a","c","t"," ","B","S","L"," ","l","a","b"," ","i","n","f","o","r","m",
      "a","t","i","o","n"," ","f","r","o","m"," ","b","i","o","m","e","d","i","c","a","l"," ",
      "t","e","x","t"," ","a","n","d"," ","r","e","t","u","r","n"," ","v","a","l","i","d"," ",
      "J","S","O","N",".","\n","\n","E","x","a","m","p","l","e",":","\n","T","e","x","t",":",
      " ","\"","W","e"," ","c","o","n","d","u","c","t","e","d"," ","e","x","p","e","r","i","m",
      "e","n","t","s"," ","w","i","t","h"," ","S","A","R","S","-","C","o","V","-","2"," ","i",
      "n"," ","o","u","r"," ","B","S","L","-","3"," ","f","a","c","i","l","i","t","y"," ","a",
      "t"," ","J","o","h","n","s"," ","H","o","p","k","i","n","s",".","\"","\n","J","S","O","N",
      ":"," ","{","\"","p","a","t","h","o","g","e","n","s","\"",":"," ","[","\"","S","A","R",
      "S","-","C","o","V","-","2","\"","]",","," ","\"","r","e","s","e","a","r","c","h","_","t",
      "y","p","e","s","\"",":"," ","[","\"","e","x","p","e","r","i","m","e","n","t","a","l",
      "\"","]",","," ","\"","e","v","i","d","e","n","c","e","_","s","p","a","n","s","\"",":",
      " ","[","\"","e","x","p","e","r","i","m","e","n","t","s"," ","w","i","t","h"," ","S","A",
      "R","S","-","C","o","V","-","2"," ","i","n"," ","o","u","r"," ","B","S","L","-","3"," ",
      "f","a","c","i","l","i","t","y","\"","]",","," ","\"","c","o","n","f","i","d","e","n","c",
      "e","\"",":"," ","0",".","9",","," ","\"","p","p","p","_","o","r","_","g","o","f","\"",
      ":"," ","f","a","l","s","e","}","\n","\n","T","e","x","t",":"," ">>
PROMPT_TAIL ==
    <<"\n","J","S","O","N",":">>
TEXT_LIMIT == 800
Take(str, len) == SubSeq(str, 1, IF Len(str) < len THEN Len(str) ELSE len)
format_prompt(chunk) ==
    PROMPT_HEAD \o Take(Get(chunk, "text", EmptyStr).s, TEXT_LIMIT) \o PROMPT_TAIL

\* str.find(t, from): the first place at or after from where t begins, 0 for -1
Find(str, t, from) ==
    LET places == {p \in from..(Len(str) - Len(t) + 1) : SubSeq(str, p, p + Len(t) - 1) = t}
    IN IF places = {} THEN 0 ELSE CHOOSE p \in places : \A q \in places : p <= q
\* str.strip()
Whitespace == {" ", "\n", "\t", "\r"}
Strip(str) ==
    LET inked == {p \in 1..Len(str) : str[p] \notin Whitespace}
    IN IF inked = {} THEN << >>
       ELSE SubSeq(str, CHOOSE p \in inked : \A q \in inked : p <= q,
                        CHOOSE p \in inked : \A q \in inked : q <= p)

\* What model.generate and tokenizer.decode add to the prompt for a chunk, or
\* the exception one of them raises.
Generates(text) == [raises |-> FALSE, text |-> text]
GenerationRaises == [raises |-> TRUE, text |-> << >>]
sGenNoLab == <<" ","n","o"," ","l","a","b"," ","h","e","r","e">>
sGenEbola == <<" ","{","\"","p","a","t","h","o","g","e","n","s","\"",":"," ","[","\"","E","b","o","l","a","\"","]","}"," ","o","k">>
sGenUnbalanced == <<" ","{","\"","p","a","t","h","o","g","e","n","s","\"",":"," ","[">>
sGenNotJson == <<"{","x","}">>
sGenOwnDocId == <<"{","\"","d","o","c","_","i","d","\"",":"," ","\"","z","\"",","," ","\"","s","o","u","r","c","e","_","p","m","i","d","\"",":"," ","\"","9","\"","}">>
ModelOutputs ==
    {GenerationRaises, Generates(<< >>), Generates(sGenNoLab), Generates(sGenEbola),
     Generates(sGenUnbalanced), Generates(sGenNotJson), Generates(sGenOwnDocId)}

\* response after "if len(response) > prompt_length: response = response[prompt_length:].strip()",
\* with a tokenizer that decodes the prompt to itself
ResponseOf(prompt, gen) ==
    IF Len(prompt \o gen) > Len(prompt) THEN Strip(gen) ELSE prompt \o gen
sJsonMarker == <<"J","S","O","N",":">>
JsonStart(resp) ==
    IF Find(resp, <<"{">>, 1) # 0 THEN Find(resp, <<"{">>, 1)
    ELSE IF Find(resp, sJsonMarker, 1) # 0 THEN Find(resp, <<"{">>, Find(resp, sJsonMarker, 1))
    ELSE 0
\* the loop that counts braces from json_start: the place of the first closing
\* brace at which brace_count is back to 0, or 0 when the loop ends without break
BraceCount(resp, json_start, p) ==
    Cardinality({q \in json_start..p : resp[q] = "{"})
      - Cardinality({q \in json_start..p : resp[q] = "}"})
MatchingBrace(resp, json_start) ==
    LET closes == {p \in json_start..Len(resp) :
                      resp[p] = "}" /\ BraceCount(resp, json_start, p) = 0}
    IN IF closes = {} THEN 0 ELSE CHOOSE p \in closes : \A q \in closes : p <= q

\* json.loads on the texts that occur: the object, or JSONDecodeError
sSarsCov2 == <<"S","A","R","S","-","C","o","V","-","2">>
sExperimental == <<"e","x","p","e","r","i","m","e","n","t","a","l">>
sExampleSpan == <<"e","x","p","e","r","i","m","e","n","t","s"," ","w","i","t","h"," ","S","A","R","S","-","C","o","V","-","2"," ","i","n"," ","o","u","r"," ","B","S","L","-","3"," ","f","a","c","i","l","i","t","y">>
sExampleJson ==
    <<"{","\"","p","a","t","h","o","g","e","n","s","\"",":"," ","[","\"","S","A","R","S","-",
      "C","o","V","-","2","\"","]",","," ","\"","r","e","s","e","a","r","c","h","_","t","y","p",
      "e","s","\"",":"," ","[","\"","e","x","p","e","r","i","m","e","n","t","a","l","\"","]",
      ","," ","\"","e","v","i","d","e","n","c","e","_","s","p","a","n","s","\"",":"," ","[",
      "\"","e","x","p","e","r","i","m","e","n","t","s"," ","w","i","t","h"," ","S","A","R","S",
      "-","C","o","V","-","2"," ","i","n"," ","o","u","r"," ","B","S","L","-","3"," ","f","a",
      "c","i","l","i","t","y","\"","]",","," ","\"","c","o","n","f","i","d","e","n","c","e",
      "\"",":"," ","0",".","9",","," ","\"","p","p","p","_","o","r","_","g","o","f","\"",":",
      " ","f","a","l","s","e","}">>
ExampleObject ==
    ("pathogens" :> List(<<Str(sSarsCov2)>>)) @@ ("research_types" :> List(<<Str(sExperimental)>>)) @@
    ("evidence_spans" :> List(<<Str(sExampleSpan)>>)) @@ ("confidence" :> Num(9)) @@
    ("ppp_or_gof" :> Bool(FALSE))
JsonLoadsRaises(json_str) ==
    json_str \notin {sExampleJson, Strip(SubSeq(sGenEbola, 1, Len(sGenEbola) - 3)), sGenOwnDocId}
JsonLoads(json_str) ==
    IF json_str = sExampleJson THEN ExampleObject
    ELSE IF json_str = sGenOwnDocId
    THEN ("doc_id" :> Str(<<"z">>)) @@ ("source_pmid" :> Str(<<"9">>))
    ELSE ("pathogens" :> List(<<Str(sEbola)>>))

\* doc_id.split("pmid:")[1].split("#")[0]
SplitFirst(str, sep) ==
    IF Find(str, sep, 1) = 0 THEN str ELSE SubSeq(str, 1, Find(str, sep, 1) - 1)
SourcePmid(doc_id) ==
    LET rest == SubSeq(doc_id, Find(doc_id, PMID_PREFIX, 1) + Len(PMID_PREFIX), Len(doc_id))
    IN SplitFirst(SplitFirst(rest, PMID_PREFIX), <<"#">>)
OnlyDocId(chunk) == ("doc_id" :> Get(chunk, "doc_id", EmptyStr))
\* the defaults of lines 246-255; confidences are in tenths
WithDefaults(result) ==
    result @@ ("pathogens" :> List(<< >>)) @@ ("research_types" :> List(<< >>)) @@
    ("evidence_spans" :> List(<< >>)) @@ ("confidence" :> Num(5)) @@ ("ppp_or_gof" :> Bool(FALSE))
WithSourcePmid(result, doc_id) ==
    IF ("source_pmid" \notin DOMAIN result \/ ~Truthy(result["source_pmid"]))
       /\ Contains(doc_id, PMID_PREFIX)
    THEN ("source_pmid" :> Str(SourcePmid(doc_id))) @@ result
    ELSE result
\* extract_from_chunk: every exception ends in the record with doc_id alone
extract_from_chunk(chunk, gen) ==
    IF gen.raises THEN OnlyDocId(chunk)
    ELSE LET resp == ResponseOf(format_prompt(chunk), gen.text)
             json_start == JsonStart(resp)
             json_end == IF json_start = 0 THEN 0 ELSE MatchingBrace(resp, json_start)
             json_str == SubSeq(resp, json_start, json_end)
         IN IF json_start = 0 \/ json_end = 0 THEN OnlyDocId(chunk)
            ELSE IF JsonLoadsRaises(json_str) THEN OnlyDocId(chunk)
            ELSE WithDefaults(WithSourcePmid(OnlyDocId(chunk) @@ JsonLoads(json_str),
                                             Get(chunk, "doc_id", EmptyStr).s))
\* The chunks of a corpus file; the last has no doc_id.
sChunkText == <<"E","b","o","l","a"," ","i","n"," ","a"," ","B","S","L","-","4"," ","l","a","b">>
Chunks ==
    << ("doc_id" :> Str(sDoc1c0)) @@ ("text" :> Str(sChunkText)),
       ("doc_id" :> Str(sDoc1c1)) @@ ("text" :> Str(sEvWorkAtX)),
       ("text" :> Str(sEvNiaid)) >>

\* ------------------------------------------------------------ corpus building
\* text.split(): the maximal runs of non-whitespace characters, in order
RECURSIVE SplitFrom(_, _)
SplitFrom(str, p) ==
    LET starts == {s \in p..Len(str) : str[s] \notin Whitespace}
    IN IF starts = {} THEN << >>
       ELSE LET s == CHOOSE a \in starts : \A b \in starts : a <= b
                stops == {e \in s..Len(str) : e = Len(str) \/ str[e + 1] \in Whitespace}
                e == CHOOSE a \in stops : \A b \in stops : a <= b
            IN <<SubSeq(str, s, e)>> \o SplitFrom(str, e + 1)

Split(str) == SplitFrom(str, 1)

\* a step that passes over words when the overlap is positive
StepPastTarget(target, overlap) == IF target + overlap < 1 THEN 1 ELSE target + overlap

\* step = max(1, target - overlap)
Step(target, overlap) == IF target - overlap < 1 THEN 1 ELSE target - overlap

\* xs[from:to], with 0-based from and to, both at least 0
Slice(xs, from, to) ==
    SubSeq(xs, from + 1, IF Len(xs) < to THEN Len(xs) ELSE to)

sSpace == <<" ">>
\* " ".join(words[i:i+target])
ChunkAt(ws, at, target) == Join(sSpace, Slice(ws, at, at + target))

\* str(n) of a natural number: its decimal digits
DigitChar == <<"0", "1", "2", "3", "4", "5", "6", "7", "8", "9">>
RECURSIVE IntToStr(_)
IntToStr(n) ==
    IF n < 10 THEN <<DigitChar[n + 1]>>
    ELSE IntToStr(n \div 10) \o <<DigitChar[(n % 10) + 1]>>

sNone == <<"N","o","n","e">>
\* what an f-string puts for {v}
Format(v) ==
    CASE v.t = "str" -> v.s
      [] v.t = "num" -> IntToStr(v.n)
      [] OTHER -> sNone

sChunkMark == <<"#","c","h","u","n","k">>
\* a chunk id that leaves the "pmid:" prefix out
DocIdWithoutPrefix(pmid, n) == Format(pmid) \o sChunkMark \o IntToStr(n)

\* f"pmid:{pmid}#chunk{i}"
DocIdOf(pmid, n) == PMID_PREFIX \o Format(pmid) \o sChunkMark \o IntToStr(n)

sPubmed == <<"p","u","b","m","e","d">>
\* the corpus row of chunk number n (0-based) of a harvested record
CorpusRow(rec, n, ch) ==
    ("doc_id" :> Str(DocIdOf(Get(rec, "pmid", Null), n))) @@
    ("source" :> Str(sPubmed)) @@
    ("title" :> Get(rec, "title", EmptyStr)) @@
    ("aff_hint" :> Get(rec, "institution_query", EmptyStr)) @@
    ("text" :> Str(ch)) @@
    ("metadata" :> Dict(("pmid" :> Get(rec, "pmid", Null)) @@
                        ("journal" :> Get(rec, "fulljournalname", EmptyStr)) @@
                        ("mesh_terms" :> Get(rec, "mesh_heading_list", List(<< >>)))))

\* for i, ch in enumerate(chunks): rows.append({...})
CorpusRowsOf(rec, chs) == [n \in 1..Len(chs) |-> CorpusRow(rec, n - 1, chs[n])]

\* the texts chunked: five words, two words between odd whitespace, one word,
\* no character at all, and whitespace only
sFiveWords == <<"a","b"," ","c"," ","d","e"," ","f"," ","g">>
sTwoWords == <<" ","a","b","\n","\t","c"," "," ">>
sOneWord == <<"a","b">>
sBlank == <<" "," ">>
ChunkTexts == <<sFiveWords, sTwoWords, sOneWord, << >>, sBlank>>

\* The harvested records: pmids of one and two digits, abstracts of several words,
\* an empty abstract, an abstract of whitespace, a record without a pmid, a record
\* without an abstract and one whose abstract is null.
HarvestedRecords ==
    << ("pmid" :> Str(<<"1">>)) @@ ("abstract" :> Str(sFiveWords)) @@
       ("institution_query" :> Str(sXUniversity)),
       ("pmid" :> Str(<<"1","2">>)) @@ ("abstract" :> Str(sTwoWords)),
       ("pmid" :> Str(<<"7">>)) @@ ("abstract" :> EmptyStr),
       ("pmid" :> Str(<<"3">>)) @@ ("abstract" :> Str(sBlank)),
       ("abstract" :> Str(sOneWord)),
       ("pmid" :> Str(<<"5">>)) @@ ("title" :> Str(sOneWord)),
       ("pmid" :> Str(<<"1">>)) @@ ("abstract" :> Null) >>

\* ------------------------------------------------------------ state
VARIABLES
    labsFile,     \* data/labs.csv: absent, or its rows
    corpusFile,   \* the corpus file: absent, or its entries
    inFile,       \* the candidate stream: absent, or its records
    outCsv,       \* the output path: absent, or the file's header and lines
    pc,           \* the place merge_extractions has reached
    error,        \* the exception that ended the run and the place it was raised at
    labs_data,    \* the gazetteer lookup, in insertion order
    corpus,       \* the loaded corpus entries
    records,      \* the loaded candidate records
    i,            \* the grouping loop: the index of the next record
    by_pmid,      \* the groups, in insertion order
    rows,         \* the rows resolved so far
    locals,       \* per row, the loop body's best, corpus_rec and institution_match
    w,            \* the writing loop: the index of the next row
    run,          \* the number of the invocation of the command: 1, or 2 for a repeated one
    firstOut,     \* what the first invocation left at the output path
    path,         \* atomic_write_jsonl: the target file, absent or its lines
    tmp_path,     \* atomic_write_jsonl: the temporary file, absent or its lines
    jrows,        \* atomic_write_jsonl: the rows to write
    nrow,         \* atomic_write_jsonl: the index of the next row
    apc,          \* atomic_write_jsonl: the place the call has reached
    aexc,         \* atomic_write_jsonl: the exception on its way out, or "none"
    geoFile,      \* the serving layer: data/gold/labs.geojson as it is now
    labs_data_cache, \* main.py: the module variable _labs_data
    calls,        \* main.py: the calls of get_labs_data so far
    reads,        \* main.py: the times get_labs_data opened the file
    returned,     \* main.py: what the last call of get_labs_data returned
    response,     \* routers/labs.py: the response to the last GET /labs/{lab_id}
    chunk_corpus, \* process_corpus: the chunks of the input corpus
    max_chunks,   \* process_corpus: the limit given, or None
    todo,         \* process_corpus: the chunks to process, after the limit
    generated,    \* process_corpus: what the model generated for each chunk so far
    results,      \* process_corpus: the records so far
    extractions,  \* process_corpus: the output file, absent or its records
    xpc,          \* process_corpus: the place it has reached
    pubmed_records, \* build_corpus: the harvested records read from pubmed_jsonl
    chunk_target, \* build_corpus: cfg.chunk_target_tokens
    chunk_overlap, \* build_corpus: cfg.chunk_overlap_tokens
    rec_i,        \* build_corpus: the index of the next harvested record
    words,        \* _chunk: the words of the text being chunked
    caller,       \* _chunk: who called it, build_corpus or a direct caller
    chunk_text,   \* _chunk: the argument text
    word_i,       \* _chunk: the loop variable i, a 0-based word index
    chunks,       \* _chunk: the chunks so far
    corpus_rows,  \* build_corpus: the rows so far
    out_jsonl,    \* build_corpus: the output file, absent or its rows
    bpc           \* build_corpus: the place it has reached

vars == <<labsFile, corpusFile, inFile, outCsv, pc, error, labs_data, corpus, records,
          i, by_pmid, rows, locals, w, run, firstOut,
          path, tmp_path, jrows, nrow, apc, aexc,
          geoFile, labs_data_cache, calls, reads, returned, response,
          chunk_corpus, max_chunks, todo, generated, results, extractions, xpc,
          pubmed_records, chunk_target, chunk_overlap, rec_i, caller, chunk_text,
          words, word_i, chunks,
          corpus_rows, out_jsonl, bpc>>

inputs == <<labsFile, corpusFile, inFile>>
runs == <<run, firstOut>>
\* the variables of merge_extractions, and those of the other functions
mergeVars == <<labsFile, corpusFile, inFile, outCsv, pc, error, labs_data, corpus, records,
               i, by_pmid, rows, locals, w, run, firstOut>>
atomicVars == <<path, tmp_path, jrows, nrow, apc, aexc>>
serveVars == <<geoFile, labs_data_cache, calls, reads, returned, response>>
extractVars == <<chunk_corpus, max_chunks, todo, generated, results, extractions, xpc>>
buildVars == <<pubmed_records, chunk_target, chunk_overlap, rec_i, caller, chunk_text,
          words, word_i, chunks,
               corpus_rows, out_jsonl, bpc>>
aside == <<atomicVars, serveVars, extractVars, buildVars>>
notAtomic == <<mergeVars, serveVars, extractVars, buildVars>>
notServe == <<mergeVars, atomicVars, extractVars, buildVars>>
notExtract == <<mergeVars, atomicVars, serveVars, buildVars>>
notBuild == <<mergeVars, atomicVars, serveVars, extractVars>>

NoError == [exc |-> "none", at |-> "none"]

\* The files a run finds.  Either a candidate stream of any lines of the pool
\* (malformed ones too, or no stream at all) with no gazetteer and no corpus
\* file, and an output path that is free or holds an older table; or a stream of
\* resolvable candidates with any gazetteer and any corpus; or a stream that
\* ends with a line that is no JSON.
MergeInit ==
    /\ \/ /\ inFile \in {Missing} \cup {File(c) : c \in SeqsUpTo(Candidates, MaxRecords)}
          /\ labsFile = Missing
          /\ corpusFile = Missing
          /\ outCsv \in {NoFile, OldTable}
       \/ /\ inFile \in {File(c) : c \in SeqsUpTo(ResolvableCandidates, MaxResolved)}
          /\ labsFile \in {Missing} \cup {File(c) : c \in SeqsUpTo(LabRows, MaxLabs)}
          /\ corpusFile \in {Missing} \cup {File(c) : c \in SeqsUpTo(CorpusEntries, MaxCorpus)}
          /\ outCsv = NoFile
       \/ /\ inFile \in {File(Append(c, BadLine)) :
                            c \in SeqsUpTo(ResolvableCandidates, MaxBeforeBadLine)}
          /\ labsFile = Missing
          /\ corpusFile = Missing
          /\ outCsv \in {NoFile, OldTable}
    /\ pc = "load_labs"
    /\ error = NoError
    /\ labs_data = << >>
    /\ corpus = << >>
    /\ records = << >>
    /\ i = 1
    /\ by_pmid = << >>
    /\ rows = << >>
    /\ locals = << >>
    /\ w = 1
    /\ run = 1
    /\ firstOut = NoFile

\* merge_extractions is not running
MergeIdle ==
    /\ labsFile = Missing /\ corpusFile = Missing /\ inFile = Missing /\ outCsv = NoFile
    /\ pc = "idle" /\ error = NoError
    /\ labs_data = << >> /\ corpus = << >> /\ records = << >>
    /\ i = 1 /\ by_pmid = << >> /\ rows = << >> /\ locals = << >> /\ w = 1
    /\ run = 1 /\ firstOut = NoFile

\* atomic_write_jsonl is not running
AtomicIdle ==
    /\ path = NoJsonl /\ tmp_path = NoJsonl /\ jrows = << >> /\ nrow = 1
    /\ apc = "idle" /\ aexc = "none"

\* no call of get_labs_data and no request yet
ServeIdle ==
    /\ geoFile = GeoMissing /\ labs_data_cache = Null /\ calls = 0 /\ reads = 0
    /\ returned = Null /\ response = NoResponse

\* process_corpus is not running
ExtractIdle ==
    /\ chunk_corpus = << >> /\ max_chunks = Null /\ todo = << >> /\ generated = << >>
    /\ results = << >> /\ extractions = [exists |-> FALSE, records |-> << >>]
    /\ xpc = "idle"

BuildIdle ==
    /\ pubmed_records = << >> /\ chunk_target = 1 /\ chunk_overlap = 0 /\ rec_i = 1
    /\ caller = "none" /\ chunk_text = << >> /\ words = << >> /\ word_i = 0
    /\ chunks = << >> /\ corpus_rows = << >>
    /\ out_jsonl = [exists |-> FALSE, rows |-> << >>]
    /\ bpc = "idle"

Init == MergeInit /\ AtomicIdle /\ ServeIdle /\ ExtractIdle /\ BuildIdle

\* An uncaught exception ends merge_extractions at once.
Raise(exc) == pc' = "failed" /\ error' = [exc |-> exc, at |-> pc]

\* a loader that opens data/labs.csv without asking whether it exists
LoadLabsWithoutExistsCheck ==
    /\ pc = "load_labs"
    /\ IF ~labsFile.exists
       THEN Raise("FileNotFoundError") /\ UNCHANGED labs_data
       ELSE labs_data' = LabsOfRows(labsFile.content) /\ pc' = "load_corpus" /\ UNCHANGED error
    /\ UNCHANGED <<inputs, runs, aside, outCsv, corpus, records, i, by_pmid, rows, locals, w>>

\* labs_data = load_labs_data(project_root)
LoadLabs ==
    /\ pc = "load_labs"
    /\ labs_data' = load_labs_data(labsFile)
    /\ pc' = "load_corpus"
    /\ UNCHANGED <<inputs, runs, aside, outCsv, error, corpus, records, i, by_pmid, rows, locals, w>>

\* a corpus read without asking whether the file exists
LoadCorpusWithoutExistsCheck ==
    /\ pc = "load_corpus"
    /\ IF ~corpusFile.exists
       THEN Raise("FileNotFoundError") /\ UNCHANGED corpus
       ELSE corpus' = corpusFile.content /\ pc' = "read_records" /\ UNCHANGED error
    /\ UNCHANGED <<inputs, runs, aside, outCsv, labs_data, records, i, by_pmid, rows, locals, w>>

\* if corpus_jsonl and corpus_jsonl.exists(): corpus = list(read_jsonl(corpus_jsonl))
LoadCorpus ==
    /\ pc = "load_corpus"
    /\ corpus' = IF ~corpusFile.exists THEN << >> ELSE corpusFile.content
    /\ pc' = "read_records"
    /\ UNCHANGED <<inputs, runs, aside, outCsv, error, labs_data, records, i, by_pmid, rows, locals, w>>

\* a run that opens its output before it reads the candidates
ReadRecordsAfterOpen ==
    /\ pc = "read_records"
    /\ outCsv' = NewFile
    /\ IF ~inFile.exists
       THEN Raise("FileNotFoundError") /\ UNCHANGED records
       ELSE IF BadLine \in {inFile.content[j] : j \in 1..Len(inFile.content)}
       THEN Raise("JSONDecodeError") /\ UNCHANGED records
       ELSE records' = inFile.content /\ pc' = "grouping" /\ UNCHANGED error
    /\ UNCHANGED <<inputs, runs, aside, labs_data, corpus, i, by_pmid, rows, locals, w>>

\* records = list(read_jsonl(in_jsonl)): opening a missing file raises, and so
\* does json.loads on a line that is no JSON, before any record is returned
ReadRecords ==
    /\ pc = "read_records"
    /\ IF ~inFile.exists
       THEN Raise("FileNotFoundError") /\ UNCHANGED records
       ELSE IF BadLine \in {inFile.content[j] : j \in 1..Len(inFile.content)}
       THEN Raise("JSONDecodeError") /\ UNCHANGED records
       ELSE records' = inFile.content /\ pc' = "grouping" /\ UNCHANGED error
    /\ UNCHANGED <<inputs, runs, aside, outCsv, labs_data, corpus, i, by_pmid, rows, locals, w>>

\* one turn of "for r in records": re.match raises TypeError on a non-string
GroupRecord ==
    /\ pc = "grouping"
    /\ i <= Len(records)
    /\ LET doc_id == Get(records[i], "doc_id", EmptyStr)
       IN IF doc_id.t # "str"
          THEN Raise("TypeError") /\ UNCHANGED <<i, by_pmid>>
          ELSE /\ by_pmid' = IF ReMatchPmid(doc_id.s) = << >> THEN by_pmid
                             ELSE GroupAppend(by_pmid, ReMatchPmid(doc_id.s), records[i])
               /\ i' = i + 1
               /\ UNCHANGED <<pc, error>>
    /\ UNCHANGED <<inputs, runs, aside, outCsv, labs_data, corpus, records, rows, locals, w>>

\* the end of the grouping loop
GroupingDone ==
    /\ pc = "grouping"
    /\ i > Len(records)
    /\ pc' = "merging"
    /\ UNCHANGED <<inputs, runs, aside, outCsv, error, labs_data, corpus, records, i, by_pmid, rows,
                   locals, w>>

\* a loop body that writes the resolved institution back into the candidate
MergeGroupWritesBack ==
    /\ pc = "merging"
    /\ Len(rows) < Len(by_pmid)
    /\ LET pmid == by_pmid[Len(rows) + 1].key
           recs == by_pmid[Len(rows) + 1].val
       IN IF GroupError(recs, labs_data) # "none"
          THEN Raise(GroupError(recs, labs_data)) /\ UNCHANGED <<rows, locals, records>>
          ELSE LET best == Best(recs)
                   corpus_rec == CorpusRec(corpus, pmid)
                   institution_match == InstitutionMatch(best, labs_data)
                   institution == Institution(corpus_rec, best, institution_match)
               IN /\ rows' = Append(rows, Row(pmid, best, institution, institution_match))
                  /\ locals' = Append(locals,
                        [best |-> best, corpus_rec |-> corpus_rec,
                         institution_match |-> institution_match])
                  /\ records' = [k \in 1..Len(records) |->
                        IF records[k] = best
                        THEN ("institution" :> institution) @@ best ELSE records[k]]
                  /\ UNCHANGED <<pc, error>>
    /\ UNCHANGED <<inputs, runs, aside, outCsv, labs_data, corpus, i, by_pmid, w>>

\* one turn of "for pmid, recs in by_pmid.items()"; the body has no try/except,
\* so an exception of the body ends merge_extractions
MergeGroup ==
    /\ pc = "merging"
    /\ Len(rows) < Len(by_pmid)
    /\ LET pmid == by_pmid[Len(rows) + 1].key
           recs == by_pmid[Len(rows) + 1].val
       IN IF GroupError(recs, labs_data) # "none"
          THEN Raise(GroupError(recs, labs_data)) /\ UNCHANGED <<rows, locals>>
          ELSE LET best == Best(recs)
                   corpus_rec == CorpusRec(corpus, pmid)
                   institution_match == InstitutionMatch(best, labs_data)
                   institution == Institution(corpus_rec, best, institution_match)
               IN /\ rows' = Append(rows, Row(pmid, best, institution, institution_match))
                  /\ locals' = Append(locals,
                        [best |-> best, corpus_rec |-> corpus_rec,
                         institution_match |-> institution_match])
                  /\ UNCHANGED <<pc, error>>
    /\ UNCHANGED <<inputs, runs, aside, outCsv, labs_data, corpus, records, i, by_pmid, w>>

\* an output opened for appending: out_csv.open("a")
OpenOutAppend ==
    /\ pc = "merging"
    /\ Len(rows) = Len(by_pmid)
    /\ outCsv' = IF outCsv.exists THEN outCsv ELSE NewFile
    /\ pc' = "write_header"
    /\ UNCHANGED <<inputs, runs, aside, error, labs_data, corpus, records, i, by_pmid, rows, locals, w>>

\* the end of the merging loop; out_csv.open("w") creates or truncates the file
OpenOut ==
    /\ pc = "merging"
    /\ Len(rows) = Len(by_pmid)
    /\ outCsv' = NewFile
    /\ pc' = "write_header"
    /\ UNCHANGED <<inputs, runs, aside, error, labs_data, corpus, records, i, by_pmid, rows, locals, w>>

\* w.writeheader()
WriteHeader ==
    /\ pc = "write_header"
    /\ outCsv' = [outCsv EXCEPT !.header = FIELDNAMES]
    /\ pc' = "writing"
    /\ UNCHANGED <<inputs, runs, aside, error, labs_data, corpus, records, i, by_pmid, rows, locals, w>>

\* one turn of "for r in rows: w.writerow(r)"
WriteRow ==
    /\ pc = "writing"
    /\ w <= Len(rows)
    /\ outCsv' = [outCsv EXCEPT !.lines = Append(@, CsvLine(rows[w]))]
    /\ w' = w + 1
    /\ UNCHANGED <<inputs, runs, aside, pc, error, labs_data, corpus, records, i, by_pmid, rows, locals>>

\* the end of the writing loop: the file is closed and merge_extractions returns
Finish ==
    /\ pc = "writing"
    /\ w > Len(rows)
    /\ pc' = "done"
    /\ UNCHANGED <<inputs, runs, aside, outCsv, error, labs_data, corpus, records, i, by_pmid, rows,
                   locals, w>>

Next ==
    \/ LoadLabs
    \/ LoadCorpus
    \/ ReadRecords
    \/ GroupRecord
    \/ GroupingDone
    \/ MergeGroup
    \/ OpenOut
    \/ WriteHeader
    \/ WriteRow
    \/ Finish

Spec == Init /\ [][Next]_vars

\* The command is invoked once more on the same files: a new process, whose
\* variables start afresh; the output path holds what the first run left there.
Rerun ==
    /\ pc \in {"done", "failed"}
    /\ run = 1
    /\ run' = 2
    /\ firstOut' = outCsv
    /\ pc' = "load_labs"
    /\ error' = NoError
    /\ labs_data' = << >>
    /\ corpus' = << >>
    /\ records' = << >>
    /\ i' = 1
    /\ by_pmid' = << >>
    /\ rows' = << >>
    /\ locals' = << >>
    /\ w' = 1
    /\ UNCHANGED <<inputs, outCsv, aside>>

\* The exit status of the command: merge() catches nothing, so an exception that
\* leaves merge_extractions ends the process with a traceback and status 1.
ExitStatus == IF error.exc # "none" THEN 1 ELSE 0

NextTwice == Next \/ Rerun

\* ------------------------------------------------------------ atomic_write_jsonl
\* The call: the target path is free or holds an older file, the rows are any.
AtomicInit ==
    /\ MergeIdle
    /\ ServeIdle
    /\ ExtractIdle
    /\ BuildIdle
    /\ path \in {NoJsonl, OldJsonl}
    /\ tmp_path = NoJsonl
    /\ jrows \in SeqsWithRepeats(JsonlRows, MaxJsonlRows)
    /\ nrow = 1
    /\ apc = "mkstemp"
    /\ aexc = "none"

\* fd, tmp = tempfile.mkstemp(...); os.close(fd): creates an empty file next to
\* the target, or raises before the try block is entered
Mkstemp ==
    /\ apc = "mkstemp"
    /\ \/ tmp_path' = EmptyJsonl /\ apc' = "open" /\ UNCHANGED aexc
       \/ apc' = "raised" /\ aexc' = "OSError" /\ UNCHANGED tmp_path
    /\ UNCHANGED <<notAtomic, path, jrows, nrow>>

\* with tmp_path.open("w", encoding="utf-8") as f
OpenTmp ==
    /\ apc = "open"
    /\ \/ tmp_path' = EmptyJsonl /\ apc' = "writing" /\ UNCHANGED aexc
       \/ apc' = "finally" /\ aexc' = "OSError" /\ UNCHANGED tmp_path
    /\ UNCHANGED <<notAtomic, path, jrows, nrow>>

\* a writing loop that writes to the target itself, as write_jsonl does
WriteLineInPlace ==
    /\ apc = "writing"
    /\ nrow <= Len(jrows)
    /\ IF DumpsRaises(jrows[nrow])
       THEN apc' = "finally" /\ aexc' = "TypeError" /\ UNCHANGED <<path, nrow>>
       ELSE \/ /\ path' = [exists |-> TRUE,
                            lines |-> IF nrow = 1 THEN <<JsonlLine(jrows[nrow])>>
                                      ELSE Append(path.lines, JsonlLine(jrows[nrow]))]
               /\ nrow' = nrow + 1
               /\ UNCHANGED <<apc, aexc>>
            \/ apc' = "finally" /\ aexc' = "OSError" /\ UNCHANGED <<path, nrow>>
    /\ UNCHANGED <<notAtomic, tmp_path, jrows>>

\* one turn of "for r in rows: f.write(json.dumps(r, ensure_ascii=False) + "\nrow")":
\* json.dumps or the write may raise
WriteLine ==
    /\ apc = "writing"
    /\ nrow <= Len(jrows)
    /\ IF DumpsRaises(jrows[nrow])
       THEN apc' = "finally" /\ aexc' = "TypeError" /\ UNCHANGED <<tmp_path, nrow>>
       ELSE \/ /\ tmp_path' = [tmp_path EXCEPT !.lines = Append(@, JsonlLine(jrows[nrow]))]
               /\ nrow' = nrow + 1
               /\ UNCHANGED <<apc, aexc>>
            \/ apc' = "finally" /\ aexc' = "OSError" /\ UNCHANGED <<tmp_path, nrow>>
    /\ UNCHANGED <<notAtomic, path, jrows>>

\* the end of the with block: the temporary file is closed
CloseTmp ==
    /\ apc = "writing"
    /\ nrow > Len(jrows)
    /\ \/ apc' = "replace" /\ UNCHANGED aexc
       \/ apc' = "finally" /\ aexc' = "OSError"
    /\ UNCHANGED <<notAtomic, path, tmp_path, jrows, nrow>>

\* tmp_path.replace(path): one rename, or an exception that leaves both files
Replace ==
    /\ apc = "replace"
    /\ \/ path' = tmp_path /\ tmp_path' = NoJsonl /\ UNCHANGED aexc
       \/ aexc' = "OSError" /\ UNCHANGED <<path, tmp_path>>
    /\ apc' = "finally"
    /\ UNCHANGED <<notAtomic, jrows, nrow>>

\* finally: if tmp_path.exists(): tmp_path.unlink(); then the call returns or
\* the exception goes on
Finally ==
    /\ apc = "finally"
    /\ tmp_path' = NoJsonl
    /\ apc' = IF aexc = "none" THEN "returned" ELSE "raised"
    /\ UNCHANGED <<notAtomic, path, jrows, nrow, aexc>>

NextAtomic ==
    \/ Mkstemp
    \/ OpenTmp
    \/ WriteLine
    \/ CloseTmp
    \/ Replace
    \/ Finally

SpecAtomic == AtomicInit /\ [][NextAtomic]_vars

\* ------------------------------------------------------------ serving layer
\* The server has started: _labs_data = None, the data file is any.
ServeInit ==
    /\ MergeIdle
    /\ AtomicIdle
    /\ ExtractIdle
    /\ BuildIdle
    /\ geoFile \in GeoFiles
    /\ labs_data_cache = Null
    /\ calls = 0
    /\ reads = 0
    /\ returned = Null
    /\ response = NoResponse

\* one call of get_labs_data()
GetLabsData ==
    /\ calls < MaxCalls
    /\ calls' = calls + 1
    /\ IF labs_data_cache = Null
       THEN /\ reads' = reads + 1
            /\ labs_data_cache' = IF GeoLoadRaises(geoFile) THEN EmptyFeatureCollection
                                  ELSE GeoLoad(geoFile)
       ELSE UNCHANGED <<reads, labs_data_cache>>
    /\ returned' = labs_data_cache'
    /\ UNCHANGED <<notServe, geoFile, response>>

\* one request GET /labs/{lab_id}
GetLab ==
    /\ \E lab_id \in LabIds : response' = GetLabResponse(geoFile, lab_id)
    /\ UNCHANGED <<notServe, geoFile, labs_data_cache, calls, reads, returned>>

\* the pipeline, or anyone, replaces or removes the data file
GeoFileChanges ==
    /\ geoFile' \in GeoFiles \ {geoFile}
    /\ UNCHANGED <<notServe, labs_data_cache, calls, reads, returned, response>>

NextServe ==
    \/ GetLabsData
    \/ GetLab
    \/ GeoFileChanges

SpecServe == ServeInit /\ [][NextServe]_vars

\* ------------------------------------------------------------ process_corpus
\* The call: any corpus file, with or without a limit on the chunks.
ExtractInit ==
    /\ MergeIdle
    /\ AtomicIdle
    /\ ServeIdle
    /\ BuildIdle
    /\ chunk_corpus \in SeqsUpTo(Chunks, MaxChunks)
    /\ max_chunks \in {Null, Num(1)}
    /\ todo = << >>
    /\ generated = << >>
    /\ results = << >>
    /\ extractions = [exists |-> FALSE, records |-> << >>]
    /\ xpc = "read"

\* corpus = list(read_jsonl(input_path)); an empty corpus returns at once;
\* corpus = corpus[:max_chunks]
ReadCorpus ==
    /\ xpc = "read"
    /\ IF chunk_corpus = << >>
       THEN xpc' = "done" /\ UNCHANGED todo
       ELSE /\ todo' = IF Truthy(max_chunks) THEN Take(chunk_corpus, max_chunks.n)
                       ELSE chunk_corpus
            /\ xpc' = "batches"
    /\ UNCHANGED <<notExtract, chunk_corpus, max_chunks, generated, results, extractions>>

\* one turn of the loop of process_batch, for the next chunk of the next batch:
\* results.append(extract_from_chunk(...)); the batches are consecutive slices and
\* their results are concatenated in order
ExtractChunk ==
    /\ xpc = "batches"
    /\ Len(results) < Len(todo)
    /\ \E gen \in ModelOutputs :
          /\ generated' = Append(generated, gen)
          /\ results' = Append(results, extract_from_chunk(todo[Len(results) + 1], gen))
    /\ UNCHANGED <<notExtract, chunk_corpus, max_chunks, todo, extractions, xpc>>

\* with open(output_path, 'w') as f: one line per result
WriteResults ==
    /\ xpc = "batches"
    /\ Len(results) = Len(todo)
    /\ extractions' = [exists |-> TRUE, records |-> results]
    /\ xpc' = "done"
    /\ UNCHANGED <<notExtract, chunk_corpus, max_chunks, todo, generated, results>>

NextExtract ==
    \/ ReadCorpus
    \/ ExtractChunk
    \/ WriteResults

SpecExtract == ExtractInit /\ [][NextExtract]_vars

\* ------------------------------------------------------------ build_corpus
\* Either build_corpus has read the harvested records and is about to loop over
\* them, or _chunk is called on a text by itself. The settings are a target of at
\* least one word and an overlap of at least none.
BuildInit ==
    /\ MergeIdle
    /\ AtomicIdle
    /\ ServeIdle
    /\ ExtractIdle
    /\ chunk_target \in 1..MaxTarget
    /\ chunk_overlap \in 0..MaxOverlap
    /\ \/ /\ caller = "build_corpus"
          /\ pubmed_records \in SeqsUpTo(HarvestedRecords, MaxHarvested)
          /\ chunk_text = << >>
          /\ bpc = "records"
       \/ /\ caller = "direct"
          /\ pubmed_records = << >>
          /\ chunk_text \in {ChunkTexts[t] : t \in 1..Len(ChunkTexts)}
          /\ bpc = "enter"
    /\ rec_i = 1
    /\ words = << >>
    /\ word_i = 0
    /\ chunks = << >>
    /\ corpus_rows = << >>
    /\ out_jsonl = [exists |-> FALSE, rows |-> << >>]

\* for rec in pubmed_records: a record without text is passed over, the text of
\* another is handed to _chunk
NextRecord ==
    /\ bpc = "records"
    /\ rec_i <= Len(pubmed_records)
    /\ LET abstract == Get(pubmed_records[rec_i], "abstract", EmptyStr)
       IN IF ~Truthy(abstract)
          THEN rec_i' = rec_i + 1 /\ UNCHANGED <<chunk_text, bpc>>
          ELSE chunk_text' = abstract.s /\ bpc' = "enter" /\ UNCHANGED rec_i
    /\ UNCHANGED <<notBuild, pubmed_records, chunk_target, chunk_overlap, caller,
                   words, word_i, chunks, corpus_rows, out_jsonl>>

\* _chunk up to its loop: an empty text returns [] at once; otherwise the words
\* are split off and the loop starts at word 0, or is over at once without words
ChunkEnter ==
    /\ bpc = "enter"
    /\ chunks' = << >>
    /\ word_i' = 0
    /\ IF chunk_text = << >>
       THEN words' = << >> /\ bpc' = "return"
       ELSE /\ words' = Split(chunk_text)
            /\ bpc' = IF 0 < Len(words') THEN "loop" ELSE "return"
    /\ UNCHANGED <<notBuild, pubmed_records, chunk_target, chunk_overlap, rec_i, caller,
                   chunk_text, corpus_rows, out_jsonl>>

\* one turn of "for i in range(0, len(words), step)": the chunk at i is appended
\* unless it is empty, and i moves on by step; the range ends at len(words)
ChunkTurn ==
    /\ bpc = "loop"
    /\ LET chunk == ChunkAt(words, word_i, chunk_target)
       IN chunks' = IF chunk # << >> THEN Append(chunks, chunk) ELSE chunks
    /\ word_i' = word_i + Step(chunk_target, chunk_overlap)
    /\ bpc' = IF word_i' < Len(words) THEN "loop" ELSE "return"
    /\ UNCHANGED <<notBuild, pubmed_records, chunk_target, chunk_overlap, rec_i, caller,
                   chunk_text, words, corpus_rows, out_jsonl>>

\* back in build_corpus: one row per chunk, numbered from 0, then the next record
EmitRows ==
    /\ bpc = "return"
    /\ caller = "build_corpus"
    /\ corpus_rows' = corpus_rows \o CorpusRowsOf(pubmed_records[rec_i], chunks)
    /\ rec_i' = rec_i + 1
    /\ bpc' = "records"
    /\ UNCHANGED <<notBuild, pubmed_records, chunk_target, chunk_overlap, caller,
                   chunk_text, words, word_i, chunks, out_jsonl>>

\* write_jsonl(out_jsonl, rows)
WriteCorpus ==
    /\ bpc = "records"
    /\ rec_i > Len(pubmed_records)
    /\ out_jsonl' = [exists |-> TRUE, rows |-> corpus_rows]
    /\ bpc' = "done"
    /\ UNCHANGED <<notBuild, pubmed_records, chunk_target, chunk_overlap, rec_i, caller,
                   chunk_text, words, word_i, chunks, corpus_rows>>

NextBuild ==
    \/ NextRecord
    \/ ChunkEnter
    \/ ChunkTurn
    \/ EmitRows
    \/ WriteCorpus

SpecBuild == BuildInit /\ [][NextBuild]_vars

\* The program runs on by itself: a step that can be taken is taken.
SpecBuildFair == SpecBuild /\ WF_vars(NextBuild)

SpecTwice == Init /\ [][NextTwice]_vars

\* ------------------------------------------------------------ properties
\* Notions of the claims, stated apart from the operators of the model.
Range(seq) == {seq[j] : j \in 1..Len(seq)}
GroupIndexes == 1..Len(by_pmid)
RowIndexes == 1..Len(rows)

\* the doc_id begins with "pmid:" followed by one or more digits
HasPmidDocId(r) ==
    /\ "doc_id" \in DOMAIN r
    /\ r["doc_id"].t = "str"
    /\ \E n \in 1..Len(r["doc_id"].s) :
          /\ n > Len(PMID_PREFIX)
          /\ SubSeq(r["doc_id"].s, 1, Len(PMID_PREFIX)) = PMID_PREFIX
          /\ \A k \in (Len(PMID_PREFIX) + 1)..n : r["doc_id"].s[k] \in Digits
\* the digit string that follows "pmid:", up to the first character that is no digit
DigitString(r) ==
    LET s == r["doc_id"].s
        n == CHOOSE n \in (Len(PMID_PREFIX) + 1)..Len(s) :
                /\ \A k \in (Len(PMID_PREFIX) + 1)..n : s[k] \in Digits
                /\ (n = Len(s) \/ s[n + 1] \notin Digits)
    IN SubSeq(s, Len(PMID_PREFIX) + 1, n)
\* the publication identifiers with at least one eligible candidate in the input
EligiblePmids == {DigitString(r) : r \in {x \in Range(inFile.content) : HasPmidDocId(x)}}

\* the resolution of group g raises
GroupIsCorrupt(g) == GroupError(by_pmid[g].val, labs_data) # "none"

\* C1: when resolving one publication group raises, that group is skipped and the
\* run still completes, writing one row for every other group.  Stated of a run
\* that has come through reading and grouping and has ended.
C1_CorruptGroupIsSkipped ==
    (pc \in {"done", "failed"} /\ error.at \notin {"read_records", "grouping"}) =>
        /\ pc = "done"
        /\ outCsv.exists
        /\ Len(outCsv.lines) = Cardinality({g \in GroupIndexes : ~GroupIsCorrupt(g)})

\* C2: the written table has exactly one row for each distinct publication
\* identifier with an eligible candidate and no other row, and pmid and
\* source_pmid of every row are that identifier.
C2_OneRowPerPmid ==
    pc = "done" =>
        /\ \A p \in EligiblePmids :
              Cardinality({k \in 1..Len(outCsv.lines) : outCsv.lines[k][1] = Str(p)}) = 1
        /\ \A k \in 1..Len(outCsv.lines) :
              /\ outCsv.lines[k][1].t = "str"
              /\ outCsv.lines[k][1].s \in EligiblePmids
              /\ outCsv.lines[k][13] = outCsv.lines[k][1]
        /\ FIELDNAMES[1] = "pmid" /\ FIELDNAMES[13] = "source_pmid"

\* C2's case: a table of two rows written from three eligible candidates
C2_Witness ==
    /\ pc = "done"
    /\ Len(outCsv.lines) = 2
    /\ Cardinality({j \in 1..Len(records) : HasPmidDocId(records[j])}) = 3

\* the confidence of a candidate, 0 when it has none
ConfidenceOf(r) == IF "confidence" \in DOMAIN r THEN r["confidence"].n ELSE 0
NumericGroup(g) ==
    \A r \in Range(by_pmid[g].val) : "confidence" \in DOMAIN r => r["confidence"].t = "num"

\* C3: the selected candidate of a group has the maximum confidence of the group
\* (no confidence counts as 0) and is the first of the group to have it.
C3_BestIsFirstMaximum ==
    \A g \in RowIndexes :
        NumericGroup(g) =>
            \E j \in 1..Len(by_pmid[g].val) :
                /\ locals[g].best = by_pmid[g].val[j]
                /\ \A m \in 1..Len(by_pmid[g].val) :
                      ConfidenceOf(by_pmid[g].val[m]) <= ConfidenceOf(by_pmid[g].val[j])
                /\ \A m \in 1..(j - 1) :
                      ConfidenceOf(by_pmid[g].val[m]) < ConfidenceOf(by_pmid[g].val[j])

\* C3's cases: confidences [3, 9, 9] select the second candidate, and a candidate
\* with no confidence loses to one with confidence 4
C3_Witness ==
    \E g \in RowIndexes :
        /\ Len(by_pmid[g].val) = 3
        /\ NumericGroup(g)
        /\ <<ConfidenceOf(by_pmid[g].val[1]), ConfidenceOf(by_pmid[g].val[2]),
             ConfidenceOf(by_pmid[g].val[3])>> = <<3, 9, 9>>
        /\ by_pmid[g].val[2] # by_pmid[g].val[3]
        /\ locals[g].best = by_pmid[g].val[2]

\* C4: a candidate whose doc_id is "pmid:" and digits is in the group keyed by
\* exactly that digit string; every other candidate is skipped silently, is in
\* no group, and never aborts the run.
C4_MalformedIsSkipped ==
    /\ error.at # "grouping"
    /\ \A j \in 1..(i - 1) :
          IF HasPmidDocId(records[j])
          THEN \A g \in GroupIndexes :
                  records[j] \in Range(by_pmid[g].val) <=> by_pmid[g].key = DigitString(records[j])
          ELSE \A g \in GroupIndexes : records[j] \notin Range(by_pmid[g].val)

\* The sources of a row's institution and geography, for the row of group g.
AffHintOf(g) ==
    IF "aff_hint" \in DOMAIN locals[g].corpus_rec THEN locals[g].corpus_rec["aff_hint"].s
    ELSE << >>
OwnInstitutionOf(g) ==
    IF "institution" \in DOMAIN locals[g].best /\ locals[g].best["institution"].t = "str"
    THEN locals[g].best["institution"].s ELSE << >>
MatchedNameOf(g) ==
    IF locals[g].institution_match.t = "dict"
    THEN locals[g].institution_match.d["institution"].s ELSE << >>
GeoFields == {"country", "city", "latitude", "longitude"}
GeoIsEmpty(g) == \A f \in GeoFields : rows[g][f] = EmptyStr
GeoIsEntry(g, j) == \A f \in GeoFields : rows[g][f] = labs_data[j].val.d[f]
LabIndexes == 1..Len(labs_data)

\* Strategy A applies: the candidate's institution is non-empty and its
\* lower-cased value is the key of entry j
DirectKey(g, j) == OwnInstitutionOf(g) # << >> /\ labs_data[j].key = Lower(OwnInstitutionOf(g))
NoDirectKey(g) == \A j \in LabIndexes : ~DirectKey(g, j)
\* entry j is the institute the aliases stand for (the key of an entry is its
\* lower-cased name)
IsAliasEntry(j) == Contains(labs_data[j].key, NIAID_FULL)
\* the lower-cased evidence text of the winning candidate of group g
EvidenceOf(g) == Evidence(locals[g].best)
\* the evidence text ev names one of the abbreviations
NamesAlias(ev) == \E a \in {ALIAS_NIAID, ALIAS_NIA, ALIAS_NIH} : Contains(ev, a)
\* the entries that satisfy one of the two conditions of the scan on evidence ev
Satisfying(ev) ==
    LET aliased == NamesAlias(ev)
    IN {j \in LabIndexes :
          \/ Contains(ev, labs_data[j].key)
          \/ aliased /\ IsAliasEntry(j)}
\* the evidence is scanned for the row of group g
Scanned(g) == NoDirectKey(g) /\ EvidenceOf(g) # << >> /\ labs_data # << >>

\* C5: the institution of a row is the first non-empty of the aff_hint of the
\* matching source document, the winning candidate's institution, the name of
\* the matched gazetteer entry, and the empty string.
C5_InstitutionPriority ==
    \A g \in RowIndexes :
        rows[g].institution =
            Str(IF AffHintOf(g) # << >> THEN AffHintOf(g)
                ELSE IF OwnInstitutionOf(g) # << >> THEN OwnInstitutionOf(g)
                ELSE MatchedNameOf(g))

\* C5's cases in one table: aff_hint "Acme Lab" wins over the candidate's "Other
\* Lab", and a row with neither takes the name of its gazetteer match
C5_Witness ==
    /\ \E g \in RowIndexes :
          /\ AffHintOf(g) = sAcmeLab /\ OwnInstitutionOf(g) = sOtherLab
          /\ rows[g].institution = Str(sAcmeLab)
    /\ \E g \in RowIndexes :
          /\ AffHintOf(g) = << >> /\ OwnInstitutionOf(g) = << >>
          /\ MatchedNameOf(g) # << >>
          /\ rows[g].institution = Str(MatchedNameOf(g))

\* the institution of row g comes from an aff_hint that names no gazetteer entry
FromAffHintOutsideGazetteer(g) ==
    /\ AffHintOf(g) # << >>
    /\ rows[g].institution = Str(AffHintOf(g))
    /\ \A j \in LabIndexes : labs_data[j].key # Lower(AffHintOf(g))

\* C6 as stated: an institution resolved from an aff_hint that is not in the
\* gazetteer leaves the four geography fields empty.
C6_AffHintOutsideGazetteerHasNoGeo ==
    \A g \in RowIndexes : FromAffHintOutsideGazetteer(g) => GeoIsEmpty(g)

\* C6 amended: ... leaves the four geography fields empty when the winning
\* candidate matches no gazetteer entry either: its own institution is no key of
\* the gazetteer and no entry satisfies a condition of the evidence scan.
C6_AffHintAndNoMatchHasNoGeo ==
    \A g \in RowIndexes :
        (FromAffHintOutsideGazetteer(g) /\ NoDirectKey(g) /\ Satisfying(EvidenceOf(g)) = {})
        => GeoIsEmpty(g) /\ rows[g].institution # EmptyStr

\* C6's case: institution from aff_hint, a gazetteer that has entries, a candidate
\* with an institution and evidence of its own, and no geography
C6_Witness ==
    \E g \in RowIndexes :
        /\ FromAffHintOutsideGazetteer(g)
        /\ labs_data # << >>
        /\ OwnInstitutionOf(g) # << >>
        /\ EvidenceOf(g) # << >>
        /\ NoDirectKey(g) /\ Satisfying(EvidenceOf(g)) = {}
        /\ GeoIsEmpty(g)

\* C7: the four geography fields of a row are all empty, as they are whenever
\* there is no gazetteer match, or all copied from one gazetteer entry; the
\* candidate's own country and city are never used.
C7_GeoIsEmptyOrOneEntry ==
    \A g \in RowIndexes :
        /\ locals[g].institution_match = Null => GeoIsEmpty(g)
        /\ locals[g].institution_match # Null =>
              \E j \in LabIndexes :
                  locals[g].institution_match = labs_data[j].val /\ GeoIsEntry(g, j)
        /\ (NoDirectKey(g) /\ Satisfying(EvidenceOf(g)) = {}) => GeoIsEmpty(g)

\* C7's cases in one table: a candidate with a country of its own whose row has
\* the entry's country, and one whose row has no geography
C7_Witness ==
    /\ \E g \in RowIndexes : \E j \in LabIndexes :
          /\ "country" \in DOMAIN locals[g].best
          /\ GeoIsEntry(g, j)
          /\ rows[g].country # locals[g].best["country"]
          /\ rows[g].latitude # rows[g].longitude
    /\ \E g \in RowIndexes :
          /\ "country" \in DOMAIN locals[g].best
          /\ locals[g].institution_match = Null
          /\ GeoIsEmpty(g)

\* C8: when the winning candidate's institution is non-empty and its lower-cased
\* value is a key of the gazetteer, that entry is the match, whatever the
\* evidence names.
C8_DirectMatchFirst ==
    \A g \in RowIndexes : \A j \in LabIndexes :
        DirectKey(g, j) =>
            locals[g].institution_match = labs_data[j].val /\ GeoIsEntry(g, j)

\* C8's case: the evidence names an entry that is earlier in load order than the
\* entry of the candidate's institution
C8_Witness ==
    \E g \in RowIndexes : \E j \in LabIndexes : \E h \in 1..(j - 1) :
        /\ DirectKey(g, j)
        /\ h \in Satisfying(EvidenceOf(g))
        /\ locals[g].institution_match = labs_data[j].val
        /\ labs_data[j].val # labs_data[h].val

\* C9: in the evidence scan the first entry, in load order, that satisfies one of
\* the two conditions is the match, and there is no match when no entry does.
C9_FirstSatisfyingEntry ==
    \A g \in RowIndexes :
        Scanned(g) =>
            LET sat == Satisfying(EvidenceOf(g))
            IN /\ sat = {} => locals[g].institution_match = Null
               /\ \A j \in sat :
                     (\A h \in sat : j <= h) => locals[g].institution_match = labs_data[j].val

\* C9's case: two entries satisfy a condition and the first of them is the match
C9_Witness ==
    \E g \in RowIndexes :
        /\ Scanned(g)
        /\ Len(labs_data) = 2
        /\ Satisfying(EvidenceOf(g)) = {1, 2}
        /\ locals[g].institution_match = labs_data[1].val
        /\ labs_data[1].val # labs_data[2].val

\* C10 as stated: when the evidence names an abbreviation and the gazetteer has
\* the institute's entry, the geography of the row is that entry's.
C10_AliasGivesInstituteGeo ==
    \A g \in RowIndexes : \A j \in LabIndexes :
        (NamesAlias(EvidenceOf(g)) /\ IsAliasEntry(j)) => GeoIsEntry(g, j)

\* C10 amended: ... the geography of the row is that entry's, provided the
\* winning candidate's own institution is no key of the gazetteer and no entry
\* earlier in load order satisfies a condition of the scan; and an entry whose
\* name does not contain the institute's full name is matched by the scan only
\* when its own name is in the evidence.
C10_AliasGivesInstituteGeoWhenFirst ==
    \A g \in RowIndexes :
        LET ev == EvidenceOf(g)
            sat == Satisfying(ev)
        IN \A j \in LabIndexes :
              /\ (/\ NamesAlias(ev) /\ IsAliasEntry(j)
                  /\ NoDirectKey(g)
                  /\ \A h \in sat : j <= h)
                 => GeoIsEntry(g, j)
              /\ (/\ Scanned(g) /\ ~IsAliasEntry(j)
                  /\ locals[g].institution_match = labs_data[j].val)
                 => Contains(ev, labs_data[j].key)

\* C10's case: "NIAID" in the evidence, the institute's entry second in the
\* gazetteer after an entry the evidence does not name, and the institute's
\* geography in the row
C10_Witness ==
    \E g \in RowIndexes :
        /\ Contains(EvidenceOf(g), ALIAS_NIAID)
        /\ Len(labs_data) = 2
        /\ IsAliasEntry(2) /\ ~IsAliasEntry(1) /\ 1 \notin Satisfying(EvidenceOf(g))
        /\ GeoIsEntry(g, 2)
        /\ rows[g].city = Str(sBethesda)

\* C11: when the gazetteer file is absent the lookup is empty and nothing is
\* raised for it; every row has empty geography and an institution that is the
\* aff_hint or the candidate's own; the run completes with one row per group.
C11_MissingGazetteerIsNotFatal ==
    ~labsFile.exists =>
        /\ labs_data = << >>
        /\ error.at # "load_labs"
        /\ \A g \in RowIndexes :
              /\ GeoIsEmpty(g)
              /\ rows[g].institution =
                    Str(IF AffHintOf(g) # << >> THEN AffHintOf(g) ELSE OwnInstitutionOf(g))
        /\ pc = "done" => Len(outCsv.lines) = Cardinality(EligiblePmids)
        /\ (inFile.exists /\ Range(inFile.content) \subseteq Range(ResolvableCandidates))
              => pc # "failed"

\* C11's case: a completed run without gazetteer, one row with the aff_hint and
\* one with the candidate's own institution
C11_Witness ==
    /\ ~labsFile.exists
    /\ pc = "done"
    /\ Len(outCsv.lines) = 2
    /\ \E g \in RowIndexes : AffHintOf(g) # << >> /\ rows[g].institution = Str(AffHintOf(g))
    /\ \E g \in RowIndexes :
          /\ AffHintOf(g) = << >> /\ OwnInstitutionOf(g) # << >>
          /\ rows[g].institution = Str(OwnInstitutionOf(g))

\* the rows of the gazetteer file whose lower-cased name is k
RowsNamed(k) == {r \in 1..Len(labsFile.content) : Lower(labsFile.content[r].institution) = k}

\* C12: the lookup maps each lower-cased institution name to exactly one entry,
\* the one of the last row with that name, and a name is found whatever its case.
C12_LastRowWins ==
    (labsFile.exists /\ pc # "load_labs") =>
        /\ \A a, b \in LabIndexes : a # b => labs_data[a].key # labs_data[b].key
        /\ \A a \in LabIndexes : RowsNamed(labs_data[a].key) # {}
        /\ \A r \in 1..Len(labsFile.content) :
              LET k == Lower(labsFile.content[r].institution)
                  last == CHOOSE x \in RowsNamed(k) : \A y \in RowsNamed(k) : y <= x
              IN \E a \in LabIndexes :
                    /\ labs_data[a].key = k
                    /\ labs_data[a].val.d.institution = Str(labsFile.content[last].institution)
                    /\ \A f \in GeoFields :
                          labs_data[a].val.d[f] = Str(labsFile.content[last][f])

\* C12's case: "X University" and then "x university" are one entry, the second's
C12_Witness ==
    /\ labsFile.exists /\ pc # "load_labs"
    /\ labsFile.content = <<LabRows[1], LabRows[3]>>
    /\ Len(labs_data) = 1
    /\ labs_data[1].val.d.institution = Str(sXUniversityLc)
    /\ labs_data[1].val.d.city = Str(sParis)

\* C13: a completed run has written the header of the 13 canonical columns in
\* their order, also when there is no group and so no data row.
C13_CanonicalHeader ==
    pc = "done" =>
        /\ outCsv.exists
        /\ outCsv.header =
              <<"pmid", "lab_name", "institution", "country", "city", "latitude",
                "longitude", "bsl_level_inferred", "pathogens", "research_types",
                "ppp_or_gof", "confidence", "source_pmid">>
        /\ by_pmid = << >> => outCsv.lines = << >>

\* C13's case: candidates were read, none was eligible, the file has the header only
C13_Witness ==
    /\ pc = "done"
    /\ records # << >>
    /\ by_pmid = << >>
    /\ Len(outCsv.header) = 13
    /\ outCsv.lines = << >>

\* the output path holds the whole table of the run: the header and every row
IsCompleteTable(f) ==
    /\ f.exists
    /\ f.header = FIELDNAMES
    /\ Len(rows) = Len(by_pmid)
    /\ f.lines = [g \in 1..Len(rows) |-> CsvLine(rows[g])]

\* C14: the output path never holds a partial table: whenever a step changes
\* what the path holds, it holds the complete table of the run afterwards.
C14_NoPartialOutput ==
    [][outCsv' # outCsv => IsCompleteTable(outCsv)']_vars

C15_NonZeroOnlyForMissingInput ==
    pc \in {"done", "failed"} => (ExitStatus # 0 <=> ~inFile.exists)

\* the first candidate of group g with the greatest confidence (none counts as 0)
WinnerOf(g) ==
    LET recs == by_pmid[g].val
        j == CHOOSE j \in 1..Len(recs) :
                /\ \A m \in 1..Len(recs) : ConfidenceOf(recs[m]) <= ConfidenceOf(recs[j])
                /\ \A m \in 1..(j - 1) : ConfidenceOf(recs[m]) < ConfidenceOf(recs[j])
    IN recs[j]
FieldOf(r, f, default) == IF f \in DOMAIN r THEN r[f] ELSE default

\* C17: the candidate-derived fields of a row (lab_name, bsl_level_inferred,
\* pathogens, research_types, ppp_or_gof, confidence) are those of the winning
\* candidate of the group, and a gazetteer entry found by the evidence scan is
\* one that the winning candidate's evidence satisfies.
C17_FieldsFromWinnerOnly ==
    \A g \in RowIndexes :
        NumericGroup(g) =>
            /\ rows[g].lab_name = FieldOf(WinnerOf(g), "lab_name", EmptyStr)
            /\ rows[g].bsl_level_inferred = FieldOf(WinnerOf(g), "bsl_level_inferred", EmptyStr)
            /\ rows[g].ppp_or_gof = FieldOf(WinnerOf(g), "ppp_or_gof", Bool(FALSE))
            /\ rows[g].confidence = FieldOf(WinnerOf(g), "confidence", Num(0))
            /\ rows[g].pathogens = Joined(WinnerOf(g), "pathogens")
            /\ rows[g].research_types = Joined(WinnerOf(g), "research_types")
            /\ (Scanned(g) /\ locals[g].institution_match.t = "dict") =>
                  \E j \in Satisfying(Evidence(WinnerOf(g))) :
                      locals[g].institution_match = labs_data[j].val

\* C17's case: the winner is not the first candidate of its group, the first one
\* has another lab_name and other pathogens, and the entry matched by the scan is
\* named in the winner's evidence and not in the first candidate's
C17_Witness ==
    \E g \in RowIndexes :
        /\ NumericGroup(g)
        /\ Len(by_pmid[g].val) >= 2
        /\ WinnerOf(g) # by_pmid[g].val[1]
        /\ rows[g].lab_name # FieldOf(by_pmid[g].val[1], "lab_name", EmptyStr)
        /\ rows[g].pathogens # Joined(by_pmid[g].val[1], "pathogens")
        /\ rows[g].confidence = Num(9)
        /\ Scanned(g) /\ locals[g].institution_match.t = "dict"
        /\ Satisfying(Evidence(by_pmid[g].val[1])) = {}

\* the scenario of C18: two candidates of pmid 1, the first with institution
\* "X University" and confidence 0.3, the second with no institution, confidence
\* 0.9 and evidence naming X University; no corpus; X University in the gazetteer
IsScenario ==
    /\ inFile = File(<<Candidates[1], Candidates[2]>>)
    /\ labsFile = File(<<LabRows[1]>>)
    /\ corpusFile = Missing

\* C18: in the scenario the run completes and the output has exactly one row:
\* pmid 1, pathogens "Nipah", confidence 0.9, the institution and the geography
\* of the gazetteer entry found by the evidence scan.
C18_Scenario ==
    IsScenario =>
        /\ pc # "failed"
        /\ pc = "done" =>
              /\ Len(outCsv.lines) = 1
              /\ LET line == [k \in 1..Len(outCsv.header) |-> <<outCsv.header[k], outCsv.lines[1][k]>>]
                 IN /\ <<"pmid", Str(<<"1">>)>> \in Range(line)
                    /\ <<"pathogens", Str(sNipah)>> \in Range(line)
                    /\ <<"confidence", Num(9)>> \in Range(line)
                    /\ <<"institution", Str(sXUniversity)>> \in Range(line)
                    /\ <<"country", Str(sUS)>> \in Range(line)
                    /\ <<"city", Str(sMetropolis)>> \in Range(line)
                    /\ <<"latitude", Str(sLat1)>> \in Range(line)
                    /\ <<"longitude", Str(sLon2)>> \in Range(line)
              /\ locals[1].best = Candidates[2]
              /\ Scanned(1)

\* C18's case: the scenario has run to its end
C18_Witness ==
    /\ IsScenario
    /\ pc = "done"
    /\ outCsv.lines # << >>
    /\ rows[1].institution = Str(sXUniversity)

\* the candidates read so far by the grouping loop, and those of identifier k
Seen == SubSeq(records, 1, i - 1)
IsOfPmid(r, k) == HasPmidDocId(r) /\ DigitString(r) = k
FirstSeen(k) == CHOOSE n \in 1..Len(Seen) :
                    /\ IsOfPmid(Seen[n], k)
                    /\ \A m \in 1..(n - 1) : ~IsOfPmid(Seen[m], k)

\* C19: a group holds the candidates of its identifier in their order in the
\* stream; the groups, the rows and the lines of the output are in the order in
\* which the identifiers first appeared in the stream.
C19_OrderPreserved ==
    /\ (pc \notin {"load_labs", "load_corpus", "read_records"} /\ error.at # "read_records")
          => records = inFile.content
    /\ \A g \in GroupIndexes :
          LET Mine(r) == IsOfPmid(r, by_pmid[g].key)
          IN by_pmid[g].val = SelectSeq(Seen, Mine)
    /\ \A g, h \in GroupIndexes :
          g < h => FirstSeen(by_pmid[g].key) < FirstSeen(by_pmid[h].key)
    /\ \A g \in RowIndexes : rows[g].pmid = Str(by_pmid[g].key)
    /\ \A g \in 1..Len(outCsv.lines) :
          pc \in {"writing", "done"} => outCsv.lines[g] = CsvLine(rows[g])

\* C19's case: the candidates of one identifier arrive around a candidate of
\* another; the first identifier to appear is written first although the stream
\* ends with it
C19_Witness ==
    /\ pc = "done"
    /\ Len(records) = 3
    /\ Len(by_pmid) = 2
    /\ by_pmid[1].val = <<records[1], records[3]>>
    /\ by_pmid[2].val = <<records[2]>>
    /\ Len(outCsv.lines) = 2
    /\ outCsv.lines[1][1] = Str(by_pmid[1].key)
    /\ outCsv.lines[2][1] = Str(by_pmid[2].key)

\* C20: once loaded, the gazetteer lookup, the corpus records and the candidate
\* records are left as they are by every later step; a candidate in a group or
\* selected for a row stays as it was read.
C20_InputsOnlyRead ==
    [][/\ pc # "load_labs" => labs_data' = labs_data
       /\ pc \notin {"load_labs", "load_corpus"} => corpus' = corpus
       /\ pc \notin {"load_labs", "load_corpus", "read_records"} => records' = records
       /\ \A g \in GroupIndexes :
             SubSeq(by_pmid'[g].val, 1, Len(by_pmid[g].val)) = by_pmid[g].val
       /\ \A g \in 1..Len(by_pmid') : Range(by_pmid'[g].val) \subseteq Range(records')
       /\ \A g \in 1..Len(locals') : locals'[g].best \in Range(records')]_vars

\* C20's case: a run that used gazetteer, corpus and candidates and ended
C20_Witness ==
    /\ pc = "done"
    /\ labs_data = LabsOfRows(labsFile.content) /\ labs_data # << >>
    /\ corpus = corpusFile.content /\ corpus # << >>
    /\ records = inFile.content
    /\ \E g \in RowIndexes : locals[g].institution_match.t = "dict"
    /\ \E g \in RowIndexes : locals[g].corpus_rec # EmptyDict

\* C21: when the corpus file is absent nothing is raised for it, no aff_hint is
\* applied, and the institution of a row is the candidate's own or, failing
\* that, the matched gazetteer name; a run over well-formed candidates completes
\* with one row per group.
C21_MissingCorpusIsNotFatal ==
    ~corpusFile.exists =>
        /\ corpus = << >>
        /\ error.at # "load_corpus"
        /\ \A g \in RowIndexes :
              /\ locals[g].corpus_rec = EmptyDict
              /\ rows[g].institution =
                    Str(IF OwnInstitutionOf(g) # << >> THEN OwnInstitutionOf(g)
                        ELSE MatchedNameOf(g))
        /\ pc = "done" => Len(outCsv.lines) = Cardinality(EligiblePmids)
        /\ (inFile.exists /\ Range(inFile.content) \subseteq Range(ResolvableCandidates))
              => pc # "failed"

\* C21's case: a completed run without corpus, one row named by the candidate
\* and one named by the gazetteer entry the scan found
C21_Witness ==
    /\ ~corpusFile.exists
    /\ pc = "done"
    /\ Len(outCsv.lines) = 2
    /\ \E g \in RowIndexes :
          OwnInstitutionOf(g) # << >> /\ rows[g].institution = Str(OwnInstitutionOf(g))
    /\ \E g \in RowIndexes :
          /\ OwnInstitutionOf(g) = << >> /\ MatchedNameOf(g) # << >>
          /\ rows[g].institution = Str(MatchedNameOf(g))

\* the place in the joined text where element k begins
RECURSIVE StartOf(_, _)
StartOf(xs, k) == IF k = 1 THEN 0 ELSE StartOf(xs, k - 1) + Len(xs[k - 1]) + 2
\* text is the elements of xs in their order, each one there, "; " between two
IsJoinOf(text, xs) ==
    /\ Len(text) = IF xs = << >> THEN 0 ELSE StartOf(xs, Len(xs)) + Len(xs[Len(xs)])
    /\ \A k \in 1..Len(xs) :
          SubSeq(text, StartOf(xs, k) + 1, StartOf(xs, k) + Len(xs[k])) = xs[k]
    /\ \A k \in 2..Len(xs) :
          SubSeq(text, StartOf(xs, k) - 1, StartOf(xs, k)) = <<";", " ">>
\* the texts of field f of candidate r; none when absent, null or empty
ElementsOf(r, f) ==
    IF f \in DOMAIN r /\ r[f].t = "list" THEN [k \in 1..Len(r[f].xs) |-> r[f].xs[k].s]
    ELSE << >>

\* C22: the pathogens and research_types of a row are the winner's sequences
\* joined with "; ", in their order and with their repeats; an empty, absent or
\* null sequence gives the empty string.
C22_JoinedInOrder ==
    \A g \in RowIndexes :
        NumericGroup(g) =>
            \A f \in {"pathogens", "research_types"} :
                /\ rows[g][f].t = "str"
                /\ IsJoinOf(rows[g][f].s, ElementsOf(WinnerOf(g), f))

\* C22's cases: a winner with pathogens [Nipah, Ebola, Nipah], and winners with
\* an empty pathogens sequence and a null research_types
C22_Witness ==
    /\ pc = "done"
    /\ \E g \in RowIndexes :
          /\ rows[g].pathogens =
                Str(<<"N","i","p","a","h",";"," ","E","b","o","l","a",";"," ",
                      "N","i","p","a","h">>)
          /\ rows[g].research_types =
                Str(<<"v","a","c","c","i","n","e",";"," ","G","o","F">>)
    /\ \E g \in RowIndexes :
          /\ NumericGroup(g)
          /\ FieldOf(WinnerOf(g), "pathogens", Null) = List(<< >>)
          /\ FieldOf(WinnerOf(g), "research_types", EmptyStr) = Null
          /\ rows[g].pathogens = EmptyStr /\ rows[g].research_types = EmptyStr

\* the publication identifier of a corpus entry's own doc_id
OwnPmidOf(entry) == DigitString(entry)

\* C23: a row takes its aff_hint only from a corpus entry of its own
\* publication: the identifier of the entry is exactly the row's.
C23_AffHintFromOwnPublicationOnly ==
    \A g \in RowIndexes :
        AffHintOf(g) # << >> =>
            /\ HasPmidDocId(locals[g].corpus_rec)
            /\ OwnPmidOf(locals[g].corpus_rec) = by_pmid[g].key

\* the candidate input cannot be read: it does not exist or holds a line that is no JSON
InputUnreadable == ~inFile.exists \/ BadLine \in Range(inFile.content)

\* C25: when the candidate input cannot be read the run fails at the reading,
\* before the output is opened: no step changes what the output path holds.
C25_FailsBeforeOutputOpened ==
    /\ [](InputUnreadable =>
            /\ pc \in {"load_labs", "load_corpus", "read_records", "failed"}
            /\ pc = "failed" => error.at = "read_records"
            /\ records = << >> /\ rows = << >>)
    /\ [][InputUnreadable => outCsv' = outCsv]_vars

\* C25's case: the run has failed on an undecodable line that follows a good
\* one, and the older table is still at the output path
C25_Witness ==
    /\ pc = "failed"
    /\ error = [exc |-> "JSONDecodeError", at |-> "read_records"]
    /\ Len(inFile.content) = 2
    /\ outCsv = OldTable

\* the target holds one line for every row handed to the call
IsCompleteJsonl(f) ==
    /\ f.exists
    /\ f.lines = [j \in 1..Len(jrows) |-> JsonlLine(jrows[j])]

C26_CacheInitialisedOnce ==
    [][calls >= 1 =>
          /\ labs_data_cache' = labs_data_cache
          /\ reads' = reads
          /\ calls' > calls => returned' = returned]_vars

\* the data file is readable and holds an object with a list of features
GeoReadable == geoFile.kind = "json" /\ geoFile.value.t = "dict"
FeaturesOfFile == geoFile.value.d["features"].xs
\* the request answered last asked for lab_id
AnswersFor(lab_id) == response = GetLabResponse(geoFile, lab_id)

\* C27: a request for an id that a feature of the file has is answered with the
\* first such feature; with a readable file and no such feature the status is
\* 404; status 500 is given only when the file cannot be loaded.
C27_NotFoundIs404 ==
    \A lab_id \in LabIds :
        (response # NoResponse /\ AnswersFor(lab_id) /\ GeoReadable) =>
            IF \E j \in 1..Len(FeaturesOfFile) : Get(FeaturesOfFile[j].d, "id", Null) = Str(lab_id)
            THEN response.status = 200
            ELSE response.status = 404

\* the model gave no JSON object for the chunk: it raised, or its text has no brace
HasNoJsonObject(gen) == gen.raises \/ \A p \in 1..Len(gen.text) : gen.text[p] # "{"

\* C28: a completed extraction run without a limit has written one record per
\* chunk of the corpus, in order, each with its chunk's doc_id; the record of a
\* chunk for which the model gave no JSON object holds doc_id only.
C28_OneRecordPerChunk ==
    (xpc = "done" /\ max_chunks = Null /\ chunk_corpus # << >>) =>
        /\ extractions.exists
        /\ Len(extractions.records) = Len(chunk_corpus)
        /\ \A k \in 1..Len(chunk_corpus) :
              /\ extractions.records[k]["doc_id"] = Get(chunk_corpus[k], "doc_id", EmptyStr)
              /\ HasNoJsonObject(generated[k]) => DOMAIN extractions.records[k] = {"doc_id"}

\* the words of the text _chunk was called with
WordsOfText == Split(chunk_text)
\* the 0-based word index chunk number k (0-based) starts at
StartOfChunk(k) ==
    k * (IF chunk_target - chunk_overlap >= 1 THEN chunk_target - chunk_overlap ELSE 1)
\* the number of words of chunk number k: up to the target, as many as are left
SizeOfChunk(k) ==
    IF Len(WordsOfText) - StartOfChunk(k) < chunk_target
    THEN Len(WordsOfText) - StartOfChunk(k)
    ELSE chunk_target
\* _chunk has returned the chunks the claim describes
ChunksAsDescribed ==
    IF chunk_text = << >> THEN chunks = << >>
    ELSE /\ \A k \in 0..(Len(chunks) - 1) :
               /\ SizeOfChunk(k) >= 1
               /\ chunks[k + 1] =
                     Join(sSpace, [j \in 1..SizeOfChunk(k) |-> WordsOfText[StartOfChunk(k) + j]])
               /\ chunks[k + 1] # << >>
         /\ \A j \in 1..Len(WordsOfText) :
               \E k \in 0..(Len(chunks) - 1) :
                   StartOfChunk(k) < j /\ j <= StartOfChunk(k) + chunk_target

\* C29: with a target of at least 1 and an overlap of at least 0, every call of
\* _chunk returns; chunk k is the up-to-target words starting at word index
\* k * max(1, target - overlap), joined by single spaces; every word of the text is
\* in at least one chunk; no chunk is empty; an empty text gives the empty list.
C29_ChunkTerminatesAndCovers ==
    /\ [](bpc = "return" => ChunksAsDescribed)
    /\ (bpc = "enter") ~> (bpc = "return")

\* _chunk has returned several chunks of a text of several words with an overlap
\* that is not below the target, the last chunk shorter than the target
C29_Witness ==
    /\ bpc = "return"
    /\ chunk_overlap >= chunk_target
    /\ chunk_target >= 2
    /\ Len(chunks) >= 3
    /\ SizeOfChunk(Len(chunks) - 1) < chunk_target

\* a non-empty string of decimal digits
AllDigits(str) == str # << >> /\ \A k \in 1..Len(str) : str[k] \in Digits
\* the number a string of decimal digits denotes
RECURSIVE DecimalValue(_)
DecimalValue(str) ==
    IF str = << >> THEN 0
    ELSE 10 * DecimalValue(SubSeq(str, 1, Len(str) - 1))
         + (CHOOSE d \in 0..9 : DigitChar[d + 1] = str[Len(str)])
\* id is 'pmid:<pmid>#chunk<number>', the number written in decimal without padding
IsChunkIdOf(id, pmid, number) ==
    LET head == PMID_PREFIX \o pmid \o sChunkMark
        tail == SubSeq(id, Len(head) + 1, Len(id))
    IN /\ Len(head) < Len(id)
       /\ SubSeq(id, 1, Len(head)) = head
       /\ AllDigits(tail)
       /\ (Len(tail) = 1 \/ tail[1] # "0")
       /\ DecimalValue(tail) = number
\* the rows build_corpus appends in the step being taken
Emitted == SubSeq(corpus_rows', Len(corpus_rows) + 1, Len(corpus_rows'))

\* C30: when build_corpus is done with a harvested record whose pmid is all digits
\* and whose abstract is not empty, it has appended one row per chunk of the
\* abstract, in order, row number i (from 0) with the id 'pmid:<pmid>#chunk<i>' and
\* the text of chunk i, and the grouper's pattern gives exactly the record's pmid
\* for each id; a record with an empty abstract adds no row; rows once appended
\* stay, and the rows are what is written.
C30_ChunkIdRoundTrip ==
    /\ [][rec_i' = rec_i + 1 =>
            LET rec == pubmed_records[rec_i]
                pmid == Get(rec, "pmid", Null)
                abstract == Get(rec, "abstract", EmptyStr)
            IN /\ SubSeq(corpus_rows', 1, Len(corpus_rows)) = corpus_rows
               /\ abstract = EmptyStr => Emitted = << >>
               /\ (pmid.t = "str" /\ AllDigits(pmid.s) /\ abstract.t = "str"
                        /\ abstract # EmptyStr) =>
                     /\ Len(Emitted) = Len(chunks)
                     /\ \A n \in 1..Len(Emitted) :
                           /\ Emitted[n]["doc_id"].t = "str"
                           /\ IsChunkIdOf(Emitted[n]["doc_id"].s, pmid.s, n - 1)
                           /\ ReMatchPmid(Emitted[n]["doc_id"].s) = pmid.s
                           /\ Emitted[n]["text"] = Str(chunks[n])]_vars
    /\ [](bpc = "done" => out_jsonl = [exists |-> TRUE, rows |-> corpus_rows])

\* a corpus written from a record of a two-digit pmid with two chunks and a record
\* with an empty abstract
C30_Witness ==
    /\ bpc = "done"
    /\ Len(pubmed_records) = 2
    /\ \E r \in 1..2 : Get(pubmed_records[r], "abstract", Null) = EmptyStr
    /\ Len(out_jsonl.rows) = 2
    /\ out_jsonl.rows[2]["doc_id"] = Str(<<"p","m","i","d",":","1","2","#","c","h","u","n","k","1">>)

====
